---- MODULE Spec2Model ----
(***************************************************************************)
(* Verification model of the bingo session server (amenassefagashaye/MEL3). *)
(*                                                                         *)
(* The layers of the repository that are modelled:                        *)
(*   - the session protocol handler with its global maps                   *)
(*     (src/auth.ts, lines 1327..2935): specification Spec and the         *)
(*     narrower ones that follow it;                                       *)
(*   - the store classes RoomModel / PlayerModel                           *)
(*     (src/room.ts, src/unnamed/part_002): SpecStore, SpecPayout,         *)
(*     SpecRoster;                                                         *)
(*   - the broadcast service (src/broadcaster.ts): SpecBroadcast,          *)
(*     SpecFlush;                                                          *)
(*   - the connection manager (src/websocket.ts): SpecLink, SpecIndex.     *)
(***************************************************************************)
EXTENDS Integers, Sequences, FiniteSets, TLC

(***************************************************************************)
(* Universes of identifiers and message inputs.                            *)
(***************************************************************************)
NULL == "null"
ADMIN_ID == "admin"

PlayerIds == {"p1", "p2"}
PlayerIds3 == {"p1", "p2", "p3"}
RoomIds == {"R1", "R2"}
Sockets == {"s1", "s2", "s3", "s4"}
\* the connections whose client knows a valid admin token
TokenHolders == {"s3", "s4"}

\* Message inputs.
\* (stake, gameType) of a register message; stake 0 = field missing
RegisterConfigs == {<<0, "75ball">>, <<25, "75ball">>}
\* payment field of a register message
RegisterPayments == {50}
LedgerPayments == {50, -50}
PaymentAmounts == {0, 50}
WithdrawAmounts == {-25, 50, 500}
AccountInputs == {"", "1000123456"}
\* (stake, gameType) of the register messages of clients with different choices
VariantConfigs == {<<25, "75ball">>, <<50, "75ball">>, <<25, "90ball">>}
\* amount field of a win message (0 = field missing)
WinAmounts == {0}
Patterns == {"line", "bogus"}
CallInputs == {0, 17, 80}

\* Model bounds.
\* RoomCapacity stands for the literal 90 of handleJoinRoom / isFull, scaled
\* to the size of the player universe so that a full room is reachable.
RoomCapacity == 2
MaxBalance == 50
MaxGameBalance == 150
MaxStoreWon == 48
MaxStoreWinners == 1
MaxPayouts == 2
MaxCalled == 2
MaxWinners == 2
MaxMarks == 2
MaxTime == 8
MaxMsgs == 4
MaxPayoutWinners == 2
MaxPayoutWon == 75

\* "Check minimum players": room.players.size < 2
MinPlayers == 2
\* rateLimitedBroadcast: minInterval (default 100 ms), as 2 clock ticks
MinInterval == 2
\* broadcastTimeout of a room with no timer scheduled
NoTimer == -1
\* lastPing / lastPong / lastMessageTime of a connection: undefined
Never == -1

VARIABLES
    players,            \* auth.ts: Map<string, Player>
    rooms,              \* auth.ts: Map<string, Room>
    adminConnections,   \* auth.ts: Set<WebSocketWithId>
    wsPlayerId,         \* ws.playerId of every connection
    wsIsAdmin,          \* ws.isAdmin of every connection
    wsState,            \* readyState of every connection
    lastOp,             \* the message handled last and the reply sent for it
    mPlayers,           \* PlayerModel.players
    mRooms,             \* RoomModel.rooms
    mRoomSeq,           \* RoomModel.roomSequence
    mPayouts,           \* history: crediting payouts per room since its last startGame
    mLast,              \* the store method called last and its result
    now,                \* Date.now(), in units of one interval tick
    bTimers,            \* pending setTimeout callbacks of rateLimitedBroadcast, by room
    bSent,              \* history: the broadcasts the rate-limited path made, by room
    bNext,              \* history: number of the next message submitted
    sends,              \* history: what the last broadcastToRoom call delivered
    bThrown,            \* history: rooms whose setTimeout callback threw an error
    notices,            \* history: notifications of the last disconnect reconciliation
    wm,                 \* websocket.ts: the four collections of WebSocketManager
    wsMeta              \* websocket.ts: fields of every WebSocket object

serverVars == <<players, rooms, adminConnections, wsPlayerId, wsIsAdmin, wsState, lastOp>>
storeVars == <<mPlayers, mRooms, mRoomSeq, mPayouts, mLast>>
castVars == <<now, bTimers, bSent, bNext, sends, bThrown>>
linkVars == <<wm, wsMeta>>
vars == <<players, rooms, adminConnections, wsPlayerId, wsIsAdmin, wsState, lastOp,
          mPlayers, mRooms, mRoomSeq, mPayouts, mLast,
          now, bTimers, bSent, bNext, sends, bThrown, notices, wm, wsMeta>>

(***************************************************************************)
(* Map helpers.                                                            *)
(***************************************************************************)
MapSet(m, k, v) == [x \in DOMAIN m \cup {k} |-> IF x = k THEN v ELSE m[x]]
MapDelete(m, k) == [x \in DOMAIN m \ {k} |-> m[x]]

Op(op, ws, pid, rid, arg, reply) ==
    [op |-> op, ws |-> ws, pid |-> pid, rid |-> rid, arg |-> arg, reply |-> reply]

StoreOp(op, rid, pid, ok) == [op |-> op, rid |-> rid, pid |-> pid, ok |-> ok]

(***************************************************************************)
(* Session protocol handler (src/auth.ts).                                 *)
(***************************************************************************)

\* Player object literal of handleRegister
NewPlayer(ws, stake, gameType, payment) ==
    [stake |-> stake, gameType |-> gameType, payment |-> payment,
     balance |-> payment, wonAmount |-> 0, withdrawn |-> 0,
     roomId |-> NULL, markedNumbers |-> {}, socket |-> ws]

\* variant of NewRoom that gives every room one fixed configuration
NewRoomDefault(player) ==
    [gameType |-> "75ball", stake |-> 25, players |-> {},
     admin |-> NULL, active |-> FALSE, calledNumbers |-> <<>>, winners |-> <<>>]

\* Room object literal of handleJoinRoom
NewRoom(player) ==
    [gameType |-> player.gameType, stake |-> player.stake, players |-> {},
     admin |-> NULL, active |-> FALSE, calledNumbers |-> <<>>, winners |-> <<>>]

\* variant of RemoveMember that keeps a room whose last member left
RemoveMemberKeepEmpty(rm, rid, pid) ==
    [rm EXCEPT ![rid].players = @ \ {pid}]

\* room.players.delete(pid) followed by "delete room if empty"
RemoveMember(rm, rid, pid) ==
    LET left == rm[rid].players \ {pid}
    IN  IF left = {} THEN MapDelete(rm, rid)
        ELSE [rm EXCEPT ![rid].players = left]

\* handlePlayerDisconnect, as a function of the two maps
DisconnectRooms(pl, rm, pid) ==
    IF pid \notin DOMAIN pl THEN rm
    ELSE LET rid == pl[pid].roomId
         IN  IF rid # NULL /\ rid \in DOMAIN rm THEN RemoveMember(rm, rid, pid) ELSE rm

DisconnectPlayers(pl, pid) == MapDelete(pl, pid)

\* variant of DisconnectNotices that notifies the admins for every id
DisconnectNoticesUnchecked(pl, rm, pid) ==
    {<<"player_disconnected", pid>>}

\* handlePlayerDisconnect: the notifications it sends ("Notify room",
\* "Notify admins")
DisconnectNotices(pl, rm, pid) ==
    IF pid \notin DOMAIN pl THEN {}
    ELSE (IF pl[pid].roomId # NULL /\ pl[pid].roomId \in DOMAIN rm
          THEN {<<"player_left", pid>>} ELSE {})
         \cup {<<"player_disconnected", pid>>}

\* variant of RoomIsFull that is off by one
RoomIsFullOffByOne(room) == Cardinality(room.players) > RoomCapacity

\* "Check if room is full"
RoomIsFull(room) == Cardinality(room.players) >= RoomCapacity

\* variant of LeaveRefund that refunds in every room state
LeaveRefundAlways(room, player) == player.stake

\* "Refund stake if game hasn't started"
LeaveRefund(room, player) == IF ~room.active THEN player.stake ELSE 0

Init ==
    /\ players = <<>>
    /\ rooms = <<>>
    /\ adminConnections = {}
    /\ wsPlayerId = [s \in Sockets |-> NULL]
    /\ wsIsAdmin = [s \in Sockets |-> FALSE]
    /\ wsState = [s \in Sockets |-> "open"]
    /\ lastOp = Op("init", NULL, NULL, NULL, 0, "none")
    /\ mPlayers = <<>>
    /\ mRooms = <<>>
    /\ mRoomSeq = 1
    /\ mPayouts = [r \in RoomIds |-> 0]
    /\ mLast = StoreOp("init", NULL, NULL, TRUE)
    /\ now = MinInterval
    /\ bTimers = [r \in RoomIds |-> NoTimer]
    /\ bSent = [r \in RoomIds |-> <<>>]
    /\ bNext = 1
    /\ sends = [rid |-> NULL, threw |-> {}, count |-> [w \in Sockets |-> 0]]
    /\ bThrown = {}
    /\ notices = {}
    /\ wm = [connections |-> {}, playerConnections |-> <<>>,
             adminConnections |-> <<>>, roomConnections |-> <<>>]
    /\ wsMeta = [s \in Sockets |->
          [playerId |-> NULL, adminId |-> NULL, roomId |-> NULL,
           lastPing |-> Never, lastPong |-> Never, lastMessageTime |-> Never]]

\* handleHello, admin branch (isAdmin && token)
HandleHelloAdmin(ws, tokenValid) ==
    /\ wsState[ws] = "open"
    /\ IF ~tokenValid
       THEN /\ wsState' = [wsState EXCEPT ![ws] = "closing"]
            /\ lastOp' = Op("hello", ws, NULL, NULL, 0, "error:Invalid admin token")
            /\ UNCHANGED <<wsIsAdmin, wsPlayerId, adminConnections>>
       ELSE /\ wsIsAdmin' = [wsIsAdmin EXCEPT ![ws] = TRUE]
            /\ wsPlayerId' = [wsPlayerId EXCEPT ![ws] = ADMIN_ID]
            /\ adminConnections' = adminConnections \cup {ws}
            /\ lastOp' = Op("hello", ws, NULL, NULL, 0, "stats")
            /\ UNCHANGED wsState
    /\ UNCHANGED <<players, rooms>>
    /\ UNCHANGED <<storeVars, castVars, linkVars, notices>>

\* handleHello, player branch
HandleHelloPlayer(ws, pid) ==
    /\ wsState[ws] = "open"
    /\ wsPlayerId' = [wsPlayerId EXCEPT ![ws] = pid]
    /\ IF pid \in DOMAIN players
       THEN /\ players' = [players EXCEPT ![pid].socket = ws]
            /\ lastOp' = Op("hello", ws, pid, NULL, 0,
                  IF players[pid].roomId # NULL /\ players[pid].roomId \in DOMAIN rooms
                  THEN "room_joined" ELSE "welcome")
       ELSE /\ players' = players
            /\ lastOp' = Op("hello", ws, pid, NULL, 0, "welcome")
    /\ UNCHANGED <<rooms, adminConnections, wsIsAdmin, wsState>>
    /\ UNCHANGED <<storeVars, castVars, linkVars, notices>>

\* handleRegister
HandleRegister(ws, pid, stake, gameType, payment) ==
    /\ wsState[ws] = "open"
    /\ IF stake = 0
       THEN /\ lastOp' = Op("register", ws, pid, NULL, payment, "error:Missing required fields")
            /\ UNCHANGED <<players, wsPlayerId>>
       ELSE IF stake <= 0
       THEN /\ lastOp' = Op("register", ws, pid, NULL, payment, "error:Invalid stake amount")
            /\ UNCHANGED <<players, wsPlayerId>>
       ELSE IF pid \in DOMAIN players
       THEN /\ lastOp' = Op("register", ws, pid, NULL, payment, "error:Player already registered")
            /\ UNCHANGED <<players, wsPlayerId>>
       ELSE /\ players' = MapSet(players, pid, NewPlayer(ws, stake, gameType, payment))
            /\ wsPlayerId' = [wsPlayerId EXCEPT ![ws] = pid]
            /\ lastOp' = Op("register", ws, pid, NULL, payment, "registration_success")
    /\ UNCHANGED <<rooms, adminConnections, wsIsAdmin, wsState>>
    /\ UNCHANGED <<storeVars, castVars, linkVars, notices>>

\* variant of JoinCharge that lets a player join for free
JoinChargeNone(player) == 0

\* "Deduct stake from balance"
JoinCharge(player) == player.stake

\* handleJoinRoom
HandleJoinRoom(ws, pid, rid) ==
    /\ wsState[ws] = "open"
    /\ IF pid \notin DOMAIN players
       THEN /\ lastOp' = Op("join_room", ws, pid, rid, 0, "error:Player not found")
            /\ UNCHANGED <<players, rooms>>
       ELSE IF players[pid].balance < players[pid].stake
       THEN /\ lastOp' = Op("join_room", ws, pid, rid, 0, "error:Insufficient balance to join room")
            /\ UNCHANGED <<players, rooms>>
       ELSE LET player == players[pid]
                rm1 == IF rid \in DOMAIN rooms THEN rooms
                       ELSE MapSet(rooms, rid, NewRoom(player))
                room == rm1[rid]
            IN  IF RoomIsFull(room)
                THEN /\ lastOp' = Op("join_room", ws, pid, rid, 0, "error:Room is full")
                     /\ rooms' = rm1
                     /\ UNCHANGED players
                ELSE IF room.gameType # player.gameType
                THEN /\ lastOp' = Op("join_room", ws, pid, rid, 0, "error:Room game type mismatch")
                     /\ rooms' = rm1
                     /\ UNCHANGED players
                ELSE IF room.stake # player.stake
                THEN /\ lastOp' = Op("join_room", ws, pid, rid, 0, "error:Room stake mismatch")
                     /\ rooms' = rm1
                     /\ UNCHANGED players
                ELSE /\ rooms' = [rm1 EXCEPT ![rid].players = @ \cup {pid}]
                     /\ players' = [players EXCEPT ![pid].roomId = rid,
                                                   ![pid].socket = ws,
                                                   ![pid].balance = @ - JoinCharge(player)]
                     /\ lastOp' = Op("join_room", ws, pid, rid, 0, "room_joined")
    /\ UNCHANGED <<adminConnections, wsPlayerId, wsIsAdmin, wsState>>
    /\ UNCHANGED <<storeVars, castVars, linkVars, notices>>

\* handleLeaveRoom
HandleLeaveRoom(ws, pid, rid) ==
    /\ wsState[ws] = "open"
    /\ IF pid \notin DOMAIN players \/ rid \notin DOMAIN rooms
       THEN /\ lastOp' = Op("leave_room", ws, pid, rid, 0, "none")
            /\ UNCHANGED <<players, rooms>>
       ELSE /\ players' = [players EXCEPT
                  ![pid].balance = @ + LeaveRefund(rooms[rid], players[pid]),
                  ![pid].roomId = NULL]
            /\ rooms' = RemoveMember(rooms, rid, pid)
            /\ lastOp' = Op("leave_room", ws, pid, rid, 0, "room_left")
    /\ UNCHANGED <<adminConnections, wsPlayerId, wsIsAdmin, wsState>>
    /\ UNCHANGED <<storeVars, castVars, linkVars, notices>>

\* handleStartGame
HandleStartGame(ws, rid, gameType, stake) ==
    /\ wsState[ws] = "open"
    /\ IF rid \notin DOMAIN rooms
       THEN /\ lastOp' = Op("start_game", ws, NULL, rid, 0, "error:Room not found")
            /\ UNCHANGED rooms
       ELSE IF ~wsIsAdmin[ws]
       THEN /\ lastOp' = Op("start_game", ws, NULL, rid, 0, "error:Admin only action")
            /\ UNCHANGED rooms
       ELSE IF rooms[rid].active
       THEN /\ lastOp' = Op("start_game", ws, NULL, rid, 0, "error:Game is already active")
            /\ UNCHANGED rooms
       ELSE IF Cardinality(rooms[rid].players) < MinPlayers
       THEN /\ lastOp' = Op("start_game", ws, NULL, rid, 0, "error:Need at least 2 players to start")
            /\ UNCHANGED rooms
       ELSE /\ rooms' = [rooms EXCEPT
                  ![rid].active = TRUE,
                  ![rid].gameType = IF gameType # NULL THEN gameType ELSE @,
                  ![rid].stake = IF stake # 0 THEN stake ELSE @,
                  ![rid].calledNumbers = <<>>,
                  ![rid].winners = <<>>,
                  ![rid].admin = ws]
            /\ lastOp' = Op("start_game", ws, NULL, rid, 0, "game_started")
    /\ UNCHANGED <<players, adminConnections, wsPlayerId, wsIsAdmin, wsState>>
    /\ UNCHANGED <<storeVars, castVars, linkVars, notices>>

\* "Validate number based on game type"
MaxNumber(gameType) ==
    IF gameType = "90ball" THEN 90
    ELSE IF gameType = "30ball" THEN 30
    ELSE IF gameType = "50ball" THEN 50
    ELSE 75

SeqContains(seq, x) == \E i \in 1..Len(seq) : seq[i] = x

\* variant of MayCallNumber that lets every connection call numbers
MayCallNumberAnyone(ws, room) == TRUE

\* "Only admin can call numbers"
MayCallNumber(ws, room) == wsIsAdmin[ws]

\* variant of PushNumber that puts the new number first
PushNumberFront(called, number) == <<number>> \o called

\* room.calledNumbers.push(number)
PushNumber(called, number) == Append(called, number)

\* handleNumberCalled
HandleNumberCalled(ws, rid, number) ==
    /\ wsState[ws] = "open"
    /\ IF rid \notin DOMAIN rooms \/ ~rooms[rid].active
       THEN /\ lastOp' = Op("number_called", ws, NULL, rid, number, "error:Game not active")
            /\ UNCHANGED rooms
       ELSE IF ~MayCallNumber(ws, rooms[rid])
       THEN /\ lastOp' = Op("number_called", ws, NULL, rid, number, "error:Admin only action")
            /\ UNCHANGED rooms
       ELSE IF number < 1 \/ number > MaxNumber(rooms[rid].gameType)
       THEN /\ lastOp' = Op("number_called", ws, NULL, rid, number, "error:Invalid number")
            /\ UNCHANGED rooms
       ELSE IF SeqContains(rooms[rid].calledNumbers, number)
       THEN /\ lastOp' = Op("number_called", ws, NULL, rid, number, "error:Number already called")
            /\ UNCHANGED rooms
       ELSE /\ rooms' = [rooms EXCEPT ![rid].calledNumbers = PushNumber(@, number)]
            /\ lastOp' = Op("number_called", ws, NULL, rid, number, "number_called")
    /\ UNCHANGED <<players, adminConnections, wsPlayerId, wsIsAdmin, wsState>>
    /\ UNCHANGED <<storeVars, castVars, linkVars, notices>>

\* handleMark
HandleMark(ws, pid, number, marked) ==
    /\ wsState[ws] = "open"
    /\ IF pid \notin DOMAIN players
       THEN /\ lastOp' = Op("mark", ws, pid, NULL, number, "none")
            /\ UNCHANGED players
       ELSE IF players[pid].roomId = NULL
       THEN /\ lastOp' = Op("mark", ws, pid, NULL, number, "error:Not in a room")
            /\ UNCHANGED players
       ELSE IF players[pid].roomId \notin DOMAIN rooms \/ ~rooms[players[pid].roomId].active
       THEN /\ lastOp' = Op("mark", ws, pid, NULL, number, "error:Game not active")
            /\ UNCHANGED players
       ELSE IF number < 1
       THEN /\ lastOp' = Op("mark", ws, pid, NULL, number, "error:Invalid number")
            /\ UNCHANGED players
       ELSE /\ players' = [players EXCEPT ![pid].markedNumbers =
                  IF marked THEN @ \cup {number} ELSE @ \ {number}]
            /\ lastOp' = Op("mark", ws, pid, NULL, number, "mark_confirmed")
    /\ UNCHANGED <<rooms, adminConnections, wsPlayerId, wsIsAdmin, wsState>>
    /\ UNCHANGED <<storeVars, castVars, linkVars, notices>>

\* getRequiredNumbersForPattern
RequiredNumbers(pattern) ==
    IF pattern = "line" THEN 1..5
    ELSE IF pattern = "two-lines" THEN 1..10
    ELSE IF pattern = "full-house" THEN 1..5
    ELSE IF pattern = "coverall" THEN 1..10
    ELSE {}

\* variant of VerifyWin that accepts every claim
VerifyWinAlways(player, pattern) == TRUE

\* verifyWin
VerifyWin(player, pattern) ==
    /\ RequiredNumbers(pattern) \subseteq player.markedNumbers
    /\ RequiredNumbers(pattern) # {}

Multiplier(pattern) ==
    IF pattern = "line" THEN 3
    ELSE IF pattern = "two-lines" THEN 5
    ELSE IF pattern = "full-house" THEN 10
    ELSE IF pattern = "coverall" THEN 20
    ELSE 1

\* calculateWinAmount: Math.floor(baseAmount * multiplier * 0.8)
CalculateWinAmount(room, pattern) ==
    (room.stake * Cardinality(room.players) * Multiplier(pattern) * 8) \div 10

\* handleWin
HandleWin(ws, pid, pattern, amount) ==
    /\ wsState[ws] = "open"
    /\ IF pid \notin DOMAIN players \/ players[pid].roomId = NULL
       THEN /\ lastOp' = Op("win", ws, pid, NULL, amount, "error:Player not in room")
            /\ UNCHANGED <<players, rooms>>
       ELSE IF players[pid].roomId \notin DOMAIN rooms \/ ~rooms[players[pid].roomId].active
       THEN /\ lastOp' = Op("win", ws, pid, players[pid].roomId, amount, "error:Game not active")
            /\ UNCHANGED <<players, rooms>>
       ELSE IF ~VerifyWin(players[pid], pattern)
       THEN /\ lastOp' = Op("win", ws, pid, players[pid].roomId, amount, "error:Invalid win claim")
            /\ UNCHANGED <<players, rooms>>
       ELSE LET rid == players[pid].roomId
                winAmount == IF amount # 0 THEN amount
                             ELSE CalculateWinAmount(rooms[rid], pattern)
            IN  /\ rooms' = [rooms EXCEPT ![rid].winners =
                       Append(@, [playerId |-> pid, pattern |-> pattern, amount |-> winAmount])]
                /\ players' = [players EXCEPT ![pid].wonAmount = @ + winAmount,
                                              ![pid].balance = @ + winAmount]
                /\ lastOp' = Op("win", ws, pid, rid, winAmount, "win_confirmed")
    /\ UNCHANGED <<adminConnections, wsPlayerId, wsIsAdmin, wsState>>
    /\ UNCHANGED <<storeVars, castVars, linkVars, notices>>

\* handlePayment
HandlePayment(ws, pid, amount) ==
    /\ wsState[ws] = "open"
    /\ IF pid \notin DOMAIN players
       THEN /\ lastOp' = Op("payment", ws, pid, NULL, amount, "none")
            /\ UNCHANGED players
       ELSE IF amount <= 0
       THEN /\ lastOp' = Op("payment", ws, pid, NULL, amount, "error:Invalid amount")
            /\ UNCHANGED players
       ELSE /\ players' = [players EXCEPT ![pid].payment = @ + amount,
                                          ![pid].balance = @ + amount]
            /\ lastOp' = Op("payment", ws, pid, NULL, amount, "payment_confirmed")
    /\ UNCHANGED <<rooms, adminConnections, wsPlayerId, wsIsAdmin, wsState>>
    /\ UNCHANGED <<storeVars, castVars, linkVars, notices>>

\* "if (amount > (player.balance || 0))"
ExceedsBalance(amount, balance) == amount > balance

\* accountNumber.trim().length < 5
AccountValid(accountNumber) == accountNumber # ""

\* handleWithdraw
HandleWithdraw(ws, pid, amount, accountNumber) ==
    /\ wsState[ws] = "open"
    /\ IF pid \notin DOMAIN players
       THEN /\ lastOp' = Op("withdraw", ws, pid, NULL, amount, "error:Player not found")
            /\ UNCHANGED players
       ELSE IF amount <= 0
       THEN /\ lastOp' = Op("withdraw", ws, pid, NULL, amount, "error:Invalid amount")
            /\ UNCHANGED players
       ELSE IF ExceedsBalance(amount, players[pid].balance)
       THEN /\ lastOp' = Op("withdraw", ws, pid, NULL, amount, "error:Insufficient balance")
            /\ UNCHANGED players
       ELSE IF ~AccountValid(accountNumber)
       THEN /\ lastOp' = Op("withdraw", ws, pid, NULL, amount, "error:Invalid account number")
            /\ UNCHANGED players
       ELSE /\ players' = [players EXCEPT ![pid].balance = @ - amount,
                                          ![pid].withdrawn = @ + amount]
            /\ lastOp' = Op("withdraw", ws, pid, NULL, amount, "withdrawal_processing")
    /\ UNCHANGED <<rooms, adminConnections, wsPlayerId, wsIsAdmin, wsState>>
    /\ UNCHANGED <<storeVars, castVars, linkVars, notices>>

\* player.socket.close(...) when readyState is OPEN
CloseIfOpen(st, ws) ==
    IF ws # NULL /\ st[ws] = "open" THEN [st EXCEPT ![ws] = "closing"] ELSE st

\* handleAdminCommand, command "kick_player" (handleKickPlayer)
HandleKickPlayer(ws, pid) ==
    /\ wsState[ws] = "open"
    /\ IF ~wsIsAdmin[ws]
       THEN /\ lastOp' = Op("kick_player", ws, pid, NULL, 0, "error:Admin only action")
            /\ notices' = {}
            /\ UNCHANGED <<players, rooms, wsState>>
       ELSE IF pid \notin DOMAIN players
       THEN /\ lastOp' = Op("kick_player", ws, pid, NULL, 0, "error:Player not found")
            /\ notices' = {}
            /\ UNCHANGED <<players, rooms, wsState>>
       ELSE /\ wsState' = CloseIfOpen(wsState, players[pid].socket)
            /\ rooms' = DisconnectRooms(players, rooms, pid)
            /\ players' = DisconnectPlayers(players, pid)
            /\ notices' = DisconnectNotices(players, rooms, pid)
            /\ lastOp' = Op("kick_player", ws, pid, NULL, 0, "admin_command_result")
    /\ UNCHANGED <<adminConnections, wsPlayerId, wsIsAdmin>>
    /\ UNCHANGED <<storeVars, castVars, linkVars>>

\* handleAdminCommand, command "end_game" (handleEndGame)
HandleEndGame(ws, rid) ==
    /\ wsState[ws] = "open"
    /\ IF ~wsIsAdmin[ws]
       THEN /\ lastOp' = Op("end_game", ws, NULL, rid, 0, "error:Admin only action")
            /\ UNCHANGED rooms
       ELSE IF rid \notin DOMAIN rooms
       THEN /\ lastOp' = Op("end_game", ws, NULL, rid, 0, "error:Room not found")
            /\ UNCHANGED rooms
       ELSE /\ rooms' = [rooms EXCEPT ![rid].active = FALSE]
            /\ lastOp' = Op("end_game", ws, NULL, rid, 0, "admin_command_result")
    /\ UNCHANGED <<players, adminConnections, wsPlayerId, wsIsAdmin, wsState>>
    /\ UNCHANGED <<storeVars, castVars, linkVars, notices>>

\* handleAdminCommand, command "reset_room" (handleResetRoom)
HandleResetRoom(ws, rid) ==
    /\ wsState[ws] = "open"
    /\ IF ~wsIsAdmin[ws]
       THEN /\ lastOp' = Op("reset_room", ws, NULL, rid, 0, "error:Admin only action")
            /\ UNCHANGED <<players, rooms>>
       ELSE IF rid \notin DOMAIN rooms
       THEN /\ lastOp' = Op("reset_room", ws, NULL, rid, 0, "error:Room not found")
            /\ UNCHANGED <<players, rooms>>
       ELSE /\ rooms' = [rooms EXCEPT ![rid].calledNumbers = <<>>, ![rid].winners = <<>>]
            /\ players' = [p \in DOMAIN players |->
                  IF p \in rooms[rid].players
                  THEN [players[p] EXCEPT !.markedNumbers = {}] ELSE players[p]]
            /\ lastOp' = Op("reset_room", ws, NULL, rid, 0, "admin_command_result")
    /\ UNCHANGED <<adminConnections, wsPlayerId, wsIsAdmin, wsState>>
    /\ UNCHANGED <<storeVars, castVars, linkVars, notices>>

\* the "close" / "error" event of a connection (handleWebSocketClose)
HandleWebSocketClose(ws) ==
    /\ wsState[ws] \in {"open", "closing"}
    /\ wsState' = [wsState EXCEPT ![ws] = "closed"]
    /\ IF wsIsAdmin[ws]
       THEN /\ adminConnections' = adminConnections \ {ws}
            /\ notices' = {}
            /\ UNCHANGED <<players, rooms>>
       ELSE IF wsPlayerId[ws] = NULL
       THEN /\ notices' = {}
            /\ UNCHANGED <<players, rooms, adminConnections>>
       ELSE /\ rooms' = DisconnectRooms(players, rooms, wsPlayerId[ws])
            /\ players' = DisconnectPlayers(players, wsPlayerId[ws])
            /\ notices' = DisconnectNotices(players, rooms, wsPlayerId[ws])
            /\ UNCHANGED adminConnections
    /\ lastOp' = Op("close", ws, wsPlayerId[ws], NULL, 0, "none")
    /\ UNCHANGED <<wsPlayerId, wsIsAdmin>>
    /\ UNCHANGED <<storeVars, castVars, linkVars>>

\* cleanupInactivePlayers for the set `stale` of players whose lastPong is
\* older than the inactivity timeout when the interval fires
RECURSIVE SweepRooms(_, _, _)
SweepRooms(pl, rm, stale) ==
    IF stale = {} THEN rm
    ELSE LET pid == CHOOSE x \in stale : TRUE
         IN  SweepRooms(DisconnectPlayers(pl, pid), DisconnectRooms(pl, rm, pid), stale \ {pid})

RECURSIVE SweepSockets(_, _, _)
SweepSockets(pl, st, stale) ==
    IF stale = {} THEN st
    ELSE LET pid == CHOOSE x \in stale : TRUE
         IN  SweepSockets(pl, CloseIfOpen(st, pl[pid].socket), stale \ {pid})

RECURSIVE SweepNotices(_, _, _)
SweepNotices(pl, rm, stale) ==
    IF stale = {} THEN {}
    ELSE LET pid == CHOOSE x \in stale : TRUE
         IN  DisconnectNotices(pl, rm, pid) \cup
             SweepNotices(DisconnectPlayers(pl, pid), DisconnectRooms(pl, rm, pid),
                          stale \ {pid})

CleanupInactivePlayers(stale) ==
    /\ stale # {}
    /\ stale \subseteq DOMAIN players
    /\ wsState' = SweepSockets(players, wsState, stale)
    /\ rooms' = SweepRooms(players, rooms, stale)
    /\ players' = [p \in DOMAIN players \ stale |-> players[p]]
    /\ notices' = SweepNotices(players, rooms, stale)
    /\ lastOp' = Op("sweep", NULL, NULL, NULL, 0, "none")
    /\ UNCHANGED <<adminConnections, wsPlayerId, wsIsAdmin>>
    /\ UNCHANGED <<storeVars, castVars, linkVars>>

\* Bound on the model: no step takes a ledger field above the cap.
BalancesBounded(cap) ==
    \A p \in DOMAIN players :
        /\ players[p].balance <= cap
        /\ players[p].payment <= cap
        /\ players[p].withdrawn <= cap

\* the connection a player's own client uses
OwnSocket(pid) == IF pid = "p1" THEN "s1" ELSE IF pid = "p2" THEN "s2" ELSE "s3"

(***************************************************************************)
(* Spec: membership.  Players p1, p2 on their own connections, one admin   *)
(* connection, two rooms.                                                  *)
(***************************************************************************)
Next ==
    \/ HandleHelloAdmin("s3", TRUE)
    \/ \E pid \in PlayerIds, cfg \in RegisterConfigs, pay \in RegisterPayments :
            HandleRegister(OwnSocket(pid), pid, cfg[1], cfg[2], pay)
    \/ \E pid \in PlayerIds, rid \in RoomIds : HandleJoinRoom(OwnSocket(pid), pid, rid)
    \/ \E pid \in PlayerIds, rid \in RoomIds :
            HandleLeaveRoom(OwnSocket(pid), pid, rid) /\ BalancesBounded(MaxBalance)'
    \/ \E ws \in {"s1", "s3"}, rid \in RoomIds : HandleStartGame(ws, rid, NULL, 0)
    \/ \E pid \in PlayerIds : HandleKickPlayer("s3", pid)
    \/ \E ws \in {"s1", "s2", "s3"} : HandleWebSocketClose(ws)
    \/ \E stale \in SUBSET PlayerIds : CleanupInactivePlayers(stale)

Spec == Init /\ [][Next]_vars

(***************************************************************************)
(* SpecLedger: the balance ledger.  Register, payment, withdraw, join and  *)
(* leave of one room, with valid and invalid amounts.                      *)
(***************************************************************************)
NextLedger ==
    \/ \E pid \in PlayerIds, cfg \in RegisterConfigs, pay \in LedgerPayments :
            HandleRegister(OwnSocket(pid), pid, cfg[1], cfg[2], pay)
    \/ \E pid \in PlayerIds : HandleJoinRoom(OwnSocket(pid), pid, "R1")
    \/ \E pid \in PlayerIds :
            HandleLeaveRoom(OwnSocket(pid), pid, "R1") /\ BalancesBounded(MaxBalance)'
    \/ \E pid \in PlayerIds, amt \in PaymentAmounts :
            HandlePayment(OwnSocket(pid), pid, amt) /\ BalancesBounded(MaxBalance)'
    \/ \E pid \in PlayerIds, amt \in WithdrawAmounts, acc \in AccountInputs :
            HandleWithdraw(OwnSocket(pid), pid, amt, acc) /\ BalancesBounded(MaxBalance)'

SpecLedger == Init /\ [][NextLedger]_vars

(***************************************************************************)
(* SpecGame: one game session.  Two players who join room R1 once, one     *)
(* admin connection; numbers are marked in ascending order.                *)
(***************************************************************************)
\* the number a client marks next: the least of 1..5 not yet marked
NextToMark(pid) ==
    IF pid \in DOMAIN players /\ (1..5) \ players[pid].markedNumbers # {}
    THEN {CHOOSE n \in (1..5) \ players[pid].markedNumbers :
             \A m \in (1..5) \ players[pid].markedNumbers : n <= m}
    ELSE {}

\* the number a client unmarks next: the greatest marked number
NextToUnmark(pid) ==
    IF pid \in DOMAIN players /\ players[pid].markedNumbers # {}
    THEN {CHOOSE n \in players[pid].markedNumbers :
             \A m \in players[pid].markedNumbers : n >= m}
    ELSE {}

WinnersBounded == \A r \in DOMAIN rooms : Len(rooms[r].winners) <= MaxWinners

NextGame ==
    \/ HandleHelloAdmin("s3", TRUE)
    \/ \E pid \in PlayerIds :
            HandleRegister(OwnSocket(pid), pid, 25, "75ball", 50)
    \/ \E pid \in PlayerIds :
            /\ pid \in DOMAIN players => players[pid].roomId = NULL
            /\ HandleJoinRoom(OwnSocket(pid), pid, "R1")
    \/ \E ws \in {"s1", "s3"} : HandleStartGame(ws, "R1", NULL, 0)
    \/ \E ws \in {"s1", "s3"}, n \in CallInputs : HandleNumberCalled(ws, "R1", n)
    \/ \E pid \in PlayerIds : \E n \in NextToMark(pid) \cup {0} :
            HandleMark(OwnSocket(pid), pid, n, TRUE)
    \/ \E pid \in PlayerIds : \E n \in NextToUnmark(pid) :
            HandleMark(OwnSocket(pid), pid, n, FALSE)
    \/ \E pid \in PlayerIds, pat \in Patterns, amt \in WinAmounts :
            /\ HandleWin(OwnSocket(pid), pid, pat, amt)
            /\ BalancesBounded(MaxGameBalance)' /\ WinnersBounded'
    \/ \E ws \in {"s1", "s3"} : HandleEndGame(ws, "R1")
    \/ \E ws \in {"s1", "s3"} : HandleResetRoom(ws, "R1")

SpecGame == Init /\ [][NextGame]_vars

(***************************************************************************)
(* SpecCaller: who may call numbers.  Two admin connections and one        *)
(* player connection act on room R1.                                       *)
(***************************************************************************)
NextCaller ==
    \/ \E ws \in TokenHolders : HandleHelloAdmin(ws, TRUE)
    \/ \E pid \in PlayerIds :
            HandleRegister(OwnSocket(pid), pid, 25, "75ball", 50)
    \/ \E pid \in PlayerIds : HandleJoinRoom(OwnSocket(pid), pid, "R1")
    \/ \E ws \in {"s1", "s3", "s4"} : HandleStartGame(ws, "R1", NULL, 0)
    \/ \E ws \in {"s1", "s3", "s4"}, n \in CallInputs : HandleNumberCalled(ws, "R1", n)
    \/ \E ws \in TokenHolders : HandleEndGame(ws, "R1")
    \/ \E ws \in TokenHolders : HandleWebSocketClose(ws)

SpecCaller == Init /\ [][NextCaller]_vars

(***************************************************************************)
(* SpecCapacity: room capacity.  Three players, each on an own connection, *)
(* join and leave two rooms.                                               *)
(***************************************************************************)
NextCapacity ==
    \/ \E pid \in PlayerIds3 :
            HandleRegister(OwnSocket(pid), pid, 25, "75ball", 50)
    \/ \E pid \in PlayerIds3, rid \in RoomIds : HandleJoinRoom(OwnSocket(pid), pid, rid)
    \/ \E pid \in PlayerIds3, rid \in RoomIds :
            HandleLeaveRoom(OwnSocket(pid), pid, rid) /\ BalancesBounded(MaxBalance)'
    \/ \E ws \in {"s1", "s2", "s3"} : HandleWebSocketClose(ws)

SpecCapacity == Init /\ [][NextCapacity]_vars

(***************************************************************************)
(* Store classes: PlayerModel (src/unnamed/part_002), RoomModel            *)
(* (src/room.ts).                                                          *)
(***************************************************************************)
StoreStakes == {25}
StoreWithdrawals == {50, 500}
StoreCalls == {17}

\* the id RoomModel.create gives its n-th room (`ROOM_${Date.now()}_${seq}`)
RoomIdOf(n) == IF n = 1 THEN "R1" ELSE "R2"

\* PlayerModel.create
PlayerCreate(pid, stake, gameType, payment) ==
    /\ mPlayers' = MapSet(mPlayers, pid,
          [stake |-> stake, gameType |-> gameType, payment |-> payment,
           balance |-> payment, wonAmount |-> 0, withdrawn |-> 0,
           roomId |-> NULL, markedNumbers |-> {}])
    /\ mLast' = StoreOp("PlayerModel.create", NULL, pid, TRUE)
    /\ UNCHANGED <<mRooms, mRoomSeq, mPayouts>>
    /\ UNCHANGED <<serverVars, castVars, linkVars, notices>>

\* PlayerModel.processWin, as a function of the player map
ProcessWin(pl, pid, amount) ==
    IF pid \notin DOMAIN pl THEN pl
    ELSE [pl EXCEPT ![pid].wonAmount = @ + amount, ![pid].balance = @ + amount]

\* PlayerModel.processWithdrawal
PlayerProcessWithdrawal(pid, amount) ==
    /\ IF pid \notin DOMAIN mPlayers
       THEN /\ mLast' = StoreOp("processWithdrawal:Player not found", NULL, pid, FALSE)
            /\ UNCHANGED mPlayers
       ELSE IF ExceedsBalance(amount, mPlayers[pid].balance)
       THEN /\ mLast' = StoreOp("processWithdrawal:Insufficient balance", NULL, pid, FALSE)
            /\ UNCHANGED mPlayers
       ELSE /\ mPlayers' = [mPlayers EXCEPT ![pid].balance = @ - amount,
                                            ![pid].withdrawn = @ + amount]
            /\ mLast' = StoreOp("processWithdrawal", NULL, pid, TRUE)
    /\ UNCHANGED <<mRooms, mRoomSeq, mPayouts>>
    /\ UNCHANGED <<serverVars, castVars, linkVars, notices>>

\* PlayerModel.joinRoom
PlayerJoinRoom(pid, rid) ==
    /\ IF pid \notin DOMAIN mPlayers
       THEN /\ mLast' = StoreOp("PlayerModel.joinRoom", rid, pid, FALSE)
            /\ UNCHANGED mPlayers
       ELSE /\ mPlayers' = [mPlayers EXCEPT ![pid].roomId = rid]
            /\ mLast' = StoreOp("PlayerModel.joinRoom", rid, pid, TRUE)
    /\ UNCHANGED <<mRooms, mRoomSeq, mPayouts>>
    /\ UNCHANGED <<serverVars, castVars, linkVars, notices>>

\* PlayerModel.leaveRoom
PlayerLeaveRoom(pid) ==
    /\ IF pid \notin DOMAIN mPlayers
       THEN /\ mLast' = StoreOp("PlayerModel.leaveRoom", NULL, pid, FALSE)
            /\ UNCHANGED mPlayers
       ELSE /\ mPlayers' = [mPlayers EXCEPT ![pid].roomId = NULL,
                                            ![pid].markedNumbers = {}]
            /\ mLast' = StoreOp("PlayerModel.leaveRoom", NULL, pid, TRUE)
    /\ UNCHANGED <<mRooms, mRoomSeq, mPayouts>>
    /\ UNCHANGED <<serverVars, castVars, linkVars, notices>>

\* RoomModel.create
RoomCreate(gameType, stake) ==
    /\ mRooms' = MapSet(mRooms, RoomIdOf(mRoomSeq),
          [gameType |-> gameType, stake |-> stake, players |-> {}, admin |-> NULL,
           active |-> FALSE, calledNumbers |-> <<>>, winners |-> <<>>,
           lastBroadcast |-> 0, queuedMessages |-> <<>>, broadcastTimeout |-> FALSE])
    /\ mRoomSeq' = mRoomSeq + 1
    /\ mLast' = StoreOp("RoomModel.create", RoomIdOf(mRoomSeq), NULL, TRUE)
    /\ UNCHANGED <<mPlayers, mPayouts>>
    /\ UNCHANGED <<serverVars, castVars, linkVars, notices>>

\* RoomModel.addPlayer
RoomAddPlayer(rid, pid) ==
    /\ IF rid \notin DOMAIN mRooms
       THEN /\ mLast' = StoreOp("addPlayer", rid, pid, FALSE)
            /\ UNCHANGED mRooms
       ELSE /\ mRooms' = [mRooms EXCEPT ![rid].players = @ \cup {pid}]
            /\ mLast' = StoreOp("addPlayer", rid, pid, TRUE)
    /\ UNCHANGED <<mPlayers, mRoomSeq, mPayouts>>
    /\ UNCHANGED <<serverVars, castVars, linkVars, notices>>

\* RoomModel.remove, effect on the player map: members lose roomId and marks
RoomRemovePlayers(pl, room) ==
    [p \in DOMAIN pl |->
        IF p \in room.players
        THEN [pl[p] EXCEPT !.roomId = NULL, !.markedNumbers = {}]
        ELSE pl[p]]

\* RoomModel.removePlayer
RoomRemovePlayer(rid, pid) ==
    /\ IF rid \notin DOMAIN mRooms
       THEN /\ mLast' = StoreOp("removePlayer", rid, pid, FALSE)
            /\ UNCHANGED <<mRooms, mPlayers>>
       ELSE LET left == mRooms[rid].players \ {pid}
            IN  /\ IF left = {}
                   THEN /\ mRooms' = MapDelete(mRooms, rid)
                        /\ mPlayers' = RoomRemovePlayers(mPlayers, [mRooms[rid] EXCEPT !.players = left])
                   ELSE /\ mRooms' = [mRooms EXCEPT ![rid].players = left]
                        /\ UNCHANGED mPlayers
                /\ mLast' = StoreOp("removePlayer", rid, pid, pid \in mRooms[rid].players)
    /\ UNCHANGED <<mRoomSeq, mPayouts>>
    /\ UNCHANGED <<serverVars, castVars, linkVars, notices>>

\* RoomModel.startGame
RoomStartGame(rid) ==
    /\ IF rid \notin DOMAIN mRooms \/ mRooms[rid].active
       THEN /\ mLast' = StoreOp("startGame", rid, NULL, FALSE)
            /\ UNCHANGED <<mRooms, mPlayers, mPayouts>>
       ELSE /\ mRooms' = [mRooms EXCEPT ![rid].active = TRUE,
                                        ![rid].calledNumbers = <<>>,
                                        ![rid].winners = <<>>]
            /\ mPlayers' = [p \in DOMAIN mPlayers |->
                  IF p \in mRooms[rid].players
                  THEN [mPlayers[p] EXCEPT !.markedNumbers = {}] ELSE mPlayers[p]]
            /\ mPayouts' = [mPayouts EXCEPT ![rid] = 0]
            /\ mLast' = StoreOp("startGame", rid, NULL, TRUE)
    /\ UNCHANGED mRoomSeq
    /\ UNCHANGED <<serverVars, castVars, linkVars, notices>>

\* (player?.stake || 0)
StakeOf(pl, pid) == IF pid \in DOMAIN pl THEN pl[pid].stake ELSE 0

RECURSIVE SumStakes(_, _)
SumStakes(pl, members) ==
    IF members = {} THEN 0
    ELSE LET m == CHOOSE x \in members : TRUE
         IN  StakeOf(pl, m) + SumStakes(pl, members \ {m})

RECURSIVE SumWinnerStakes(_, _)
SumWinnerStakes(pl, winners) ==
    IF winners = <<>> THEN 0
    ELSE StakeOf(pl, Head(winners).playerId) + SumWinnerStakes(pl, Tail(winners))

\* variant of WinShare that takes no service charge
WinShareNoCharge(totalStake, stake, totalWinnerStake) ==
    (totalStake * stake) \div totalWinnerStake

\* Math.floor(prizePool * stakeRatio) with prizePool = totalStake - totalStake * 0.03
WinShare(totalStake, stake, totalWinnerStake) ==
    (97 * totalStake * stake) \div (100 * totalWinnerStake)

\* calculateWinnings: the winner list with the amounts filled in
PaidWinners(pl, room) ==
    LET total == SumStakes(pl, room.players)
        tws == SumWinnerStakes(pl, room.winners)
    IN  [i \in 1..Len(room.winners) |->
            IF room.winners[i].playerId \in DOMAIN pl
            THEN [room.winners[i] EXCEPT !.amount =
                     WinShare(total, pl[room.winners[i].playerId].stake, tws)]
            ELSE room.winners[i]]

\* calculateWinnings: playerModel.processWin for every winner, in list order
RECURSIVE CreditWinners(_, _, _, _)
CreditWinners(pl, winners, total, tws) ==
    IF winners = <<>> THEN pl
    ELSE LET w == Head(winners)
         IN  CreditWinners(
                 IF w.playerId \in DOMAIN pl
                 THEN ProcessWin(pl, w.playerId, WinShare(total, pl[w.playerId].stake, tws))
                 ELSE pl,
                 Tail(winners), total, tws)

\* RoomModel.endGame
RoomEndGame(rid) ==
    /\ IF rid \notin DOMAIN mRooms \/ ~mRooms[rid].active
       THEN /\ mLast' = StoreOp("endGame", rid, NULL, FALSE)
            /\ UNCHANGED <<mRooms, mPlayers, mPayouts>>
       ELSE LET room == mRooms[rid]
            IN  /\ IF room.winners = <<>>
                   THEN /\ mRooms' = [mRooms EXCEPT ![rid].active = FALSE]
                        /\ UNCHANGED <<mPlayers, mPayouts>>
                   ELSE LET credited == CreditWinners(mPlayers, room.winners,
                                            SumStakes(mPlayers, room.players),
                                            SumWinnerStakes(mPlayers, room.winners))
                        IN  /\ mRooms' = [mRooms EXCEPT ![rid].active = FALSE,
                                             ![rid].winners = PaidWinners(mPlayers, room)]
                            /\ mPlayers' = credited
                            /\ mPayouts' = [mPayouts EXCEPT ![rid] =
                                               IF credited # mPlayers THEN @ + 1 ELSE @]
                /\ mLast' = StoreOp("endGame", rid, NULL, TRUE)
    /\ UNCHANGED mRoomSeq
    /\ UNCHANGED <<serverVars, castVars, linkVars, notices>>

\* RoomModel.pauseGame
RoomPauseGame(rid) ==
    /\ IF rid \notin DOMAIN mRooms \/ ~mRooms[rid].active
       THEN /\ mLast' = StoreOp("pauseGame", rid, NULL, FALSE)
            /\ UNCHANGED mRooms
       ELSE /\ mRooms' = [mRooms EXCEPT ![rid].active = FALSE]
            /\ mLast' = StoreOp("pauseGame", rid, NULL, TRUE)
    /\ UNCHANGED <<mPlayers, mRoomSeq, mPayouts>>
    /\ UNCHANGED <<serverVars, castVars, linkVars, notices>>

\* RoomModel.resumeGame
RoomResumeGame(rid) ==
    /\ IF rid \notin DOMAIN mRooms \/ mRooms[rid].active
       THEN /\ mLast' = StoreOp("resumeGame", rid, NULL, FALSE)
            /\ UNCHANGED mRooms
       ELSE /\ mRooms' = [mRooms EXCEPT ![rid].active = TRUE]
            /\ mLast' = StoreOp("resumeGame", rid, NULL, TRUE)
    /\ UNCHANGED <<mPlayers, mRoomSeq, mPayouts>>
    /\ UNCHANGED <<serverVars, castVars, linkVars, notices>>

\* RoomModel.callNumber
RoomCallNumber(rid, number) ==
    /\ IF rid \notin DOMAIN mRooms \/ ~mRooms[rid].active
       THEN /\ mLast' = StoreOp("callNumber", rid, NULL, FALSE)
            /\ UNCHANGED mRooms
       ELSE /\ mRooms' = [mRooms EXCEPT ![rid].calledNumbers = Append(@, number)]
            /\ mLast' = StoreOp("callNumber", rid, NULL, TRUE)
    /\ UNCHANGED <<mPlayers, mRoomSeq, mPayouts>>
    /\ UNCHANGED <<serverVars, castVars, linkVars, notices>>

\* RoomModel.addWinner
RoomAddWinner(rid, pid, pattern, amount) ==
    /\ IF rid \notin DOMAIN mRooms \/ ~mRooms[rid].active
       THEN /\ mLast' = StoreOp("addWinner", rid, pid, FALSE)
            /\ UNCHANGED mRooms
       ELSE /\ mRooms' = [mRooms EXCEPT ![rid].winners =
                  Append(@, [playerId |-> pid, pattern |-> pattern, amount |-> amount])]
            /\ mLast' = StoreOp("addWinner", rid, pid, TRUE)
    /\ UNCHANGED <<mPlayers, mRoomSeq, mPayouts>>
    /\ UNCHANGED <<serverVars, castVars, linkVars, notices>>

StoreBounded ==
    /\ \A r \in RoomIds : mPayouts[r] <= MaxPayouts
    /\ \A p \in DOMAIN mPlayers : mPlayers[p].wonAmount <= MaxStoreWon
    /\ \A r \in DOMAIN mRooms :
          /\ Len(mRooms[r].winners) <= MaxStoreWinners
          /\ Len(mRooms[r].calledNumbers) <= MaxCalled

(***************************************************************************)
(* SpecStore: the store classes called directly, one room.                 *)
(***************************************************************************)
NextStore ==
    \/ \E pid \in PlayerIds \ DOMAIN mPlayers, st \in StoreStakes :
          PlayerCreate(pid, st, "75ball", 50)
    \/ \E pid \in PlayerIds, amt \in StoreWithdrawals : PlayerProcessWithdrawal(pid, amt)
    \/ mRoomSeq = 1 /\ RoomCreate("75ball", 25)
    \/ \E pid \in PlayerIds : RoomAddPlayer("R1", pid)
    \/ \E pid \in PlayerIds : RoomRemovePlayer("R1", pid)
    \/ RoomStartGame("R1")
    \/ RoomEndGame("R1") /\ StoreBounded'
    \/ RoomPauseGame("R1")
    \/ RoomResumeGame("R1")
    \/ \E n \in StoreCalls : RoomCallNumber("R1", n) /\ StoreBounded'
    \/ \E pid \in PlayerIds : RoomAddWinner("R1", pid, "line", 0) /\ StoreBounded'

SpecStore == Init /\ [][NextStore]_vars

(***************************************************************************)
(* Properties of the session protocol handler.                             *)
(***************************************************************************)

\* C1: for every player P, P.roomId is non-null iff P.id is a member of the
\* room P.roomId names, and P.id is a member of no other room.
C1_RoomIdIffMember ==
    \A p \in DOMAIN players :
        /\ (players[p].roomId # NULL) <=>
               (/\ players[p].roomId \in DOMAIN rooms
                /\ p \in rooms[players[p].roomId].players)
        /\ \A r \in DOMAIN rooms : p \in rooms[r].players => r = players[p].roomId

\* C7: a leave_room handled for an existing player and room raises the
\* player's balance by exactly the player's stake when the room is not
\* active, and leaves the balance unchanged when the room is Active.
C7_LeaveRefundByRoomState ==
    [][\A pid \in PlayerIds, rid \in RoomIds :
          (/\ lastOp'.op = "leave_room" /\ lastOp'.pid = pid /\ lastOp'.rid = rid
           /\ pid \in DOMAIN players /\ rid \in DOMAIN rooms)
          => /\ pid \in DOMAIN players'
             /\ players'[pid].balance =
                    players[pid].balance
                    + (IF rooms[rid].active THEN 0 ELSE players[pid].stake)]_vars

\* a player has just left a room whose game is Active
C7_Witness ==
    /\ lastOp.op = "leave_room" /\ lastOp.reply = "room_left"
    /\ lastOp.rid \in DOMAIN rooms
    /\ rooms[lastOp.rid].active
    /\ lastOp.pid \in DOMAIN players

\* C8: no room with an empty membership set exists in any reachable state:
\* the step that removes a room's last member also deletes the room.
C8_NoEmptyRoom ==
    \A r \in DOMAIN rooms : rooms[r].players # {}

\* the last member has just left a room and the room id no longer resolves
C8_Witness ==
    /\ lastOp.op = "leave_room" /\ lastOp.reply = "room_left"
    /\ lastOp.rid \notin DOMAIN rooms


\* C2: after any sequence of register, payment, join_room, leave_room and
\* withdraw operations no player's balance is negative.
C2_NoNegativeBalance ==
    \A p \in DOMAIN players : players[p].balance >= 0

\* C3: a withdraw whose amount is greater than the player's current balance is
\* answered with the insufficient-balance error and leaves the player's
\* balance and withdrawn total unchanged.
C3_OverdrawRejected ==
    [][\A pid \in PlayerIds :
          (/\ lastOp'.op = "withdraw" /\ lastOp'.pid = pid
           /\ pid \in DOMAIN players
           /\ lastOp'.arg > players[pid].balance)
          => /\ lastOp'.reply = "error:Insufficient balance"
             /\ players'[pid].balance = players[pid].balance
             /\ players'[pid].withdrawn = players[pid].withdrawn]_vars

\* C4: payout distribution is idempotent per room session: an endGame on a
\* room whose winners were already credited since the last startGame leaves
\* every recorded winner amount and every balance and wonAmount as they were.
C4_PayoutIdempotent ==
    [][\A rid \in RoomIds :
          (/\ mLast'.op = "endGame" /\ mLast'.rid = rid
           /\ mPayouts[rid] >= 1
           /\ rid \in DOMAIN mRooms)
          => /\ mRooms'[rid].winners = mRooms[rid].winners
             /\ \A p \in DOMAIN mPlayers :
                   /\ mPlayers'[p].balance = mPlayers[p].balance
                   /\ mPlayers'[p].wonAmount = mPlayers[p].wonAmount]_vars

RECURSIVE SumAmounts(_)
SumAmounts(winners) ==
    IF winners = <<>> THEN 0 ELSE Head(winners).amount + SumAmounts(Tail(winners))

\* C5: right after an accepted win claim the win amounts credited in the
\* room's session sum to at most the prize pool, the members' total stake
\* less the 3% service charge.
C5_WinsWithinPrizePool ==
    (/\ lastOp.op = "win" /\ lastOp.reply = "win_confirmed"
     /\ lastOp.rid \in DOMAIN rooms)
    => 100 * SumAmounts(rooms[lastOp.rid].winners)
           <= 97 * SumStakes(players, rooms[lastOp.rid].players)

NoDuplicates(seq) ==
    \A i, j \in 1..Len(seq) : seq[i] = seq[j] => i = j

\* C6: in every reachable state no room's calledNumbers sequence, in the
\* session server or in RoomModel, contains a value twice.
C6_NoDuplicateCalls ==
    /\ \A r \in DOMAIN rooms : NoDuplicates(rooms[r].calledNumbers)
    /\ \A r \in DOMAIN mRooms : NoDuplicates(mRooms[r].calledNumbers)

C10_OnlyRoomAdminCalls ==
    [][\A rid \in RoomIds :
          (/\ lastOp'.op = "number_called" /\ lastOp'.rid = rid
           /\ rid \in DOMAIN rooms /\ rid \in DOMAIN rooms'
           /\ rooms'[rid].calledNumbers # rooms[rid].calledNumbers)
          => /\ rooms[rid].active
             /\ rooms[rid].admin = lastOp'.ws]_vars


\* the start_game half of C11: the handler of the session server
StartGameServerRule ==
    \A rid \in RoomIds :
        (lastOp'.op = "start_game" /\ lastOp'.rid = rid)
        => IF /\ rid \in DOMAIN rooms
              /\ ~rooms[rid].active
              /\ Cardinality(rooms[rid].players) >= MinPlayers
              /\ wsIsAdmin[lastOp'.ws]
           THEN /\ rooms'[rid].active
                /\ rooms'[rid].calledNumbers = <<>>
                /\ rooms'[rid].winners = <<>>
                /\ rooms'[rid].admin = lastOp'.ws
           ELSE rooms' = rooms

\* the startGame half of C11: RoomModel
StartGameStoreRule ==
    \A rid \in RoomIds :
        (/\ mLast'.op = "startGame" /\ mLast'.rid = rid /\ mLast'.ok
         /\ rid \in DOMAIN mRooms)
        => /\ ~mRooms[rid].active
           /\ Cardinality(mRooms[rid].players) >= MinPlayers
           /\ mRooms'[rid].active
           /\ mRooms'[rid].calledNumbers = <<>>
           /\ mRooms'[rid].winners = <<>>

\* C11: a start turns a room Active only when the room exists, is not already
\* Active, has at least 2 members and (for the start_game message) the sender
\* is an admin; an accepted start empties calledNumbers and winners and binds
\* the sender as the room's admin; a rejected start changes no room state.
C11_StartOnlyWhenAllowed ==
    [][StartGameServerRule /\ StartGameStoreRule]_vars

\* the server half of C11 alone
C11_ServerHalf == [][StartGameServerRule]_vars


\* C12: an end_game from the room's admin on an Active room ends the game; an
\* end_game on a room that is not Active, or from a connection that is not the
\* room's admin, changes no state.
C12_EndGameByRoomAdmin ==
    [][\A rid \in RoomIds :
          (lastOp'.op = "end_game" /\ lastOp'.rid = rid)
          => IF /\ rid \in DOMAIN rooms
                /\ rooms[rid].active
                /\ rooms[rid].admin = lastOp'.ws
             THEN ~rooms'[rid].active
             ELSE rooms' = rooms /\ players' = players]_vars


\* C13: after an accepted reset_room the room's game is inactive, its
\* calledNumbers and winners are empty, every current member's marked-number
\* set is empty, and its membership set is the same as before the reset.
C13_ResetRoomToWaiting ==
    [][\A rid \in RoomIds :
          (/\ lastOp'.op = "reset_room" /\ lastOp'.rid = rid
           /\ lastOp'.reply = "admin_command_result")
          => /\ rid \in DOMAIN rooms'
             /\ ~rooms'[rid].active
             /\ rooms'[rid].calledNumbers = <<>>
             /\ rooms'[rid].winners = <<>>
             /\ rooms'[rid].players = rooms[rid].players
             /\ \A p \in rooms'[rid].players :
                   p \in DOMAIN players' => players'[p].markedNumbers = {}]_vars


\* C14: when an admin connection closes, every room bound to it has its admin
\* binding cleared and still exists with the same membership and the same
\* active flag.
C14_AdminCloseClearsBinding ==
    [][\A ws \in Sockets :
          (lastOp'.op = "close" /\ lastOp'.ws = ws /\ wsIsAdmin[ws])
          => \A rid \in DOMAIN rooms :
                rooms[rid].admin = ws
                => /\ rid \in DOMAIN rooms'
                   /\ rooms'[rid].admin = NULL
                   /\ rooms'[rid].players = rooms[rid].players
                   /\ rooms'[rid].active = rooms[rid].active]_vars


(***************************************************************************)
(* SpecMarks: marking and leaving.  Two players, two rooms, one admin.     *)
(***************************************************************************)
MarksBounded ==
    \A p \in DOMAIN players : Cardinality(players[p].markedNumbers) <= MaxMarks

NextMarks ==
    \/ HandleHelloAdmin("s3", TRUE)
    \/ \E pid \in PlayerIds : HandleRegister(OwnSocket(pid), pid, 25, "75ball", 50)
    \/ \E pid \in PlayerIds, rid \in RoomIds : HandleJoinRoom(OwnSocket(pid), pid, rid)
    \/ \E pid \in PlayerIds, rid \in RoomIds :
          HandleLeaveRoom(OwnSocket(pid), pid, rid) /\ BalancesBounded(MaxBalance)'
    \/ \E rid \in RoomIds : HandleStartGame("s3", rid, NULL, 0)
    \/ \E pid \in PlayerIds : \E n \in NextToMark(pid) :
          HandleMark(OwnSocket(pid), pid, n, TRUE) /\ MarksBounded'

SpecMarks == Init /\ [][NextMarks]_vars

\* C15: a player who is in no room has an empty marked-number set.
C15_NoMarksOutsideRoom ==
    \A p \in DOMAIN players :
        players[p].roomId = NULL => players[p].markedNumbers = {}


\* C16: a win claim is accepted only for a player who is a member of an
\* Active room and whose marks cover the numbers the claimed pattern requires;
\* a rejected claim leaves the rooms and the players unchanged and is answered
\* with an error.
C16_WinOnlyWhenVerified ==
    [][lastOp'.op = "win"
       => LET pid == lastOp'.pid
          IN  IF lastOp'.reply = "win_confirmed"
              THEN /\ pid \in DOMAIN players
                   /\ players[pid].roomId \in DOMAIN rooms
                   /\ LET rid == players[pid].roomId
                          w == rooms'[rid].winners[Len(rooms'[rid].winners)]
                      IN  /\ rooms[rid].active
                          /\ pid \in rooms[rid].players
                          /\ w.playerId = pid
                          /\ RequiredNumbers(w.pattern) # {}
                          /\ RequiredNumbers(w.pattern) \subseteq players[pid].markedNumbers
              ELSE /\ lastOp'.reply \in {"error:Player not in room",
                                         "error:Game not active",
                                         "error:Invalid win claim"}
                   /\ rooms' = rooms
                   /\ players' = players]_vars

C16_Witness ==
    /\ lastOp.op = "win" /\ lastOp.reply = "error:Invalid win claim"
    /\ lastOp.pid \in DOMAIN players
    /\ lastOp.rid \in DOMAIN rooms
    /\ rooms[lastOp.rid].active
    /\ lastOp.pid \in rooms[lastOp.rid].players


(***************************************************************************)
(* Broadcast service (src/broadcaster.ts): the rate-limited path.          *)
(***************************************************************************)
\* rateLimitedBroadcast with the default minInterval; the message is the
\* bNext-th one submitted
RateLimitedBroadcast(rid) ==
    /\ IF rid \notin DOMAIN mRooms
       THEN UNCHANGED <<mRooms, bTimers, bSent, bNext>>
       ELSE IF now - mRooms[rid].lastBroadcast < MinInterval
       THEN /\ mRooms' = [mRooms EXCEPT
                  ![rid].queuedMessages = Append(@, [message |-> bNext, timestamp |-> now]),
                  ![rid].broadcastTimeout = TRUE]
            /\ bTimers' = IF mRooms[rid].broadcastTimeout THEN bTimers
                          ELSE [bTimers EXCEPT ![rid] = now + MinInterval]
            /\ bNext' = bNext + 1
            /\ UNCHANGED bSent
       ELSE /\ mRooms' = [mRooms EXCEPT ![rid].lastBroadcast = now]
            /\ bSent' = [bSent EXCEPT ![rid] =
                  Append(@, [msgs |-> <<bNext>>, at |-> now, envelope |-> "message",
                             deferred |-> FALSE])]
            /\ bNext' = bNext + 1
            /\ UNCHANGED bTimers
    /\ UNCHANGED <<mPlayers, mRoomSeq, mPayouts, mLast, now, sends, bThrown>>
    /\ UNCHANGED <<serverVars, linkVars, notices>>

\* messagesToSend.map(item => item.message)
QueuedBatch(queue) == [i \in 1..Len(queue) |-> queue[i].message]

\* variant of FlushEnvelope that wraps a single message as well
FlushEnvelopeAlwaysBatch(queue) == "batch"

\* processQueuedMessages: batchBroadcast (type "batch") for more than one
\* message, broadcastToRoom of the message itself for one
FlushEnvelope(queue) == IF Len(queue) > 1 THEN "batch" ELSE "message"

\* the setTimeout callback: processQueuedMessages, not before its delay is over.
\* Without the room, `room.broadcastTimeout = null` dereferences undefined
\* and the callback throws a TypeError.
ProcessQueuedMessages(rid) ==
    /\ bTimers[rid] # NoTimer
    /\ now >= bTimers[rid]
    /\ bTimers' = [bTimers EXCEPT ![rid] = NoTimer]
    /\ IF rid \notin DOMAIN mRooms
       THEN /\ bThrown' = bThrown \cup {rid}
            /\ UNCHANGED <<mRooms, bSent>>
       ELSE IF mRooms[rid].queuedMessages = <<>>
       THEN /\ mRooms' = [mRooms EXCEPT ![rid].broadcastTimeout = FALSE]
            /\ UNCHANGED <<bSent, bThrown>>
       ELSE /\ mRooms' = [mRooms EXCEPT ![rid].queuedMessages = <<>>,
                                        ![rid].lastBroadcast = now,
                                        ![rid].broadcastTimeout = FALSE]
            /\ bSent' = [bSent EXCEPT ![rid] =
                  Append(@, [msgs |-> QueuedBatch(mRooms[rid].queuedMessages), at |-> now,
                             envelope |-> FlushEnvelope(mRooms[rid].queuedMessages),
                             deferred |-> TRUE])]
            /\ UNCHANGED bThrown
    /\ UNCHANGED <<mPlayers, mRoomSeq, mPayouts, mLast, now, bNext, sends>>
    /\ UNCHANGED <<serverVars, linkVars, notices>>

\* cleanupBroadcastTimeouts
CleanupBroadcastTimeouts ==
    /\ mRooms' = [r \in DOMAIN mRooms |-> [mRooms[r] EXCEPT !.broadcastTimeout = FALSE]]
    /\ bTimers' = [r \in RoomIds |->
          IF r \in DOMAIN mRooms /\ mRooms[r].broadcastTimeout THEN NoTimer ELSE bTimers[r]]
    /\ UNCHANGED <<mPlayers, mRoomSeq, mPayouts, mLast, now, bSent, bNext, sends, bThrown>>
    /\ UNCHANGED <<serverVars, linkVars, notices>>

\* the clock advances
Tick ==
    /\ now < MaxTime
    /\ now' = now + 1
    /\ UNCHANGED <<storeVars, bTimers, bSent, bNext, sends, bThrown>>
    /\ UNCHANGED <<serverVars, linkVars, notices>>

(***************************************************************************)
(* SpecBroadcast: one room, messages numbered in the order of submission.  *)
(* A message is submitted only while a timer it may start can still fire   *)
(* before the clock stops.                                                 *)
(***************************************************************************)
NextBroadcast ==
    \/ mRoomSeq = 1 /\ RoomCreate("75ball", 25)
    \/ /\ bNext <= MaxMsgs
       /\ now + MinInterval <= MaxTime
       /\ RateLimitedBroadcast("R1")
    \/ ProcessQueuedMessages("R1")
    \/ CleanupBroadcastTimeouts
    \/ Tick

SpecBroadcast == Init /\ [][NextBroadcast]_vars

\* setTimeout callbacks run and time passes
SpecBroadcastFair ==
    /\ Init /\ [][NextBroadcast]_vars
    /\ WF_vars(ProcessQueuedMessages("R1"))
    /\ WF_vars(Tick)

\* the messages broadcast to a room so far, in the order of the broadcasts
RECURSIVE Flatten(_)
Flatten(log) ==
    IF log = <<>> THEN <<>> ELSE Head(log).msgs \o Flatten(Tail(log))

WasBroadcast(rid, m) ==
    \E i \in 1..Len(bSent[rid]) : \E j \in 1..Len(bSent[rid][i].msgs) :
        bSent[rid][i].msgs[j] = m

\* C17: every message passed to rateLimitedBroadcast for an existing room is
\* eventually broadcast to that room.
C17_EveryMessageBroadcast ==
    \A m \in 1..MaxMsgs : (bNext > m) ~> WasBroadcast("R1", m)

\* C18: messages reach the room in the order the calls were made: the k-th
\* message broadcast to the room is the k-th message submitted.
C18_BroadcastInSubmissionOrder ==
    \A i \in 1..Len(Flatten(bSent["R1"])) : Flatten(bSent["R1"])[i] = i

\* C19: any two consecutive broadcasts of the rate-limited path for one room
\* are at least minInterval apart.
C19_BroadcastsSpaced ==
    \A rid \in RoomIds : \A i \in 1..(Len(bSent[rid]) - 1) :
        bSent[rid][i + 1].at - bSent[rid][i].at >= MinInterval


(***************************************************************************)
(* broadcastToRoom of the session server (src/auth.ts).                    *)
(***************************************************************************)
\* the number of socket.send calls one broadcastToRoom makes on socket w
SendCalls(rid, w) ==
    Cardinality({p \in rooms[rid].players :
                    /\ p \in DOMAIN players
                    /\ players[p].socket = w
                    /\ wsState[w] = "open"})
    + (IF rooms[rid].admin = w /\ wsState[w] = "open" THEN 1 ELSE 0)

\* one call of broadcastToRoom; send throws on the sockets in `throwing`
BroadcastToRoom(rid, throwing) ==
    /\ sends' = [rid |-> rid, threw |-> throwing,
                 count |-> [w \in Sockets |->
                    IF rid \notin DOMAIN rooms \/ w \in throwing THEN 0
                    ELSE SendCalls(rid, w)]]
    /\ lastOp' = Op("broadcast", NULL, NULL, rid, 0, "none")
    /\ UNCHANGED <<players, rooms, adminConnections, wsPlayerId, wsIsAdmin, wsState>>
    /\ UNCHANGED <<storeVars, now, bTimers, bSent, bNext, bThrown, linkVars, notices>>

(***************************************************************************)
(* SpecFanout: two players who may use the same connection s1, one admin   *)
(* connection s3, room R1.                                                 *)
(***************************************************************************)
NextFanout ==
    \/ HandleHelloAdmin("s3", TRUE)
    \/ \E pid \in PlayerIds : \E ws \in {"s1", OwnSocket(pid)} :
          HandleRegister(ws, pid, 25, "75ball", 50)
    \/ \E pid \in PlayerIds :
          /\ pid \in DOMAIN players
          /\ players[pid].roomId = NULL
          /\ HandleJoinRoom(players[pid].socket, pid, "R1")
    \/ HandleStartGame("s3", "R1", NULL, 0)
    \/ \E ws \in {"s1", "s3"} : HandleWebSocketClose(ws)
    \/ \E throwing \in SUBSET {"s1", "s3"} : BroadcastToRoom("R1", throwing)

SpecFanout == Init /\ [][NextFanout]_vars

\* socket w belongs to the audience of room rid: a member's socket or the
\* room's admin
InAudience(rid, w) ==
    \/ \E p \in rooms[rid].players : p \in DOMAIN players /\ players[p].socket = w
    \/ rooms[rid].admin = w

\* C20: one broadcastToRoom call delivers the message exactly once to each
\* distinct open socket of its audience on which send does not throw, and
\* nothing to any other socket.
C20_BroadcastOncePerEndpoint ==
    [][\A rid \in RoomIds :
          (lastOp'.op = "broadcast" /\ lastOp'.rid = rid /\ rid \in DOMAIN rooms)
          => \A w \in Sockets :
                sends'.count[w] =
                    IF /\ InAudience(rid, w)
                       /\ wsState[w] = "open"
                       /\ w \notin sends'.threw
                    THEN 1 ELSE 0]_vars

(***************************************************************************)
(* Disconnect reconciliation.                                              *)
(***************************************************************************)
\* C21: handlePlayerDisconnect is idempotent.  A close event or a kick that
\* reaches a player id whose record an earlier reconciliation (sweep, kick or
\* close) has removed leaves players and rooms as they are and sends neither
\* player_left nor player_disconnected again.
C21_DisconnectIdempotent ==
    [][\A pid \in PlayerIds :
          (/\ pid \notin DOMAIN players
           /\ lastOp'.op \in {"close", "kick_player"}
           /\ lastOp'.pid = pid)
          => /\ players' = players
             /\ rooms' = rooms
             /\ notices' = {}]_vars

\* the close event of a connection arrives after its player was reconciled
C21_Witness ==
    /\ lastOp.op = "close"
    /\ lastOp.pid \in PlayerIds
    /\ lastOp.pid \notin DOMAIN players
    /\ wsState[lastOp.ws] = "closed"
    /\ notices = {}

(***************************************************************************)
(* SpecReconnect: every player has a first connection and a second one it  *)
(* reconnects on; the close event of a connection may be handled late.     *)
(***************************************************************************)
\* the connection a player's client opens when it connects again
NewSocket(pid) == IF pid = "p1" THEN "s3" ELSE "s4"

NextReconnect ==
    \/ \E pid \in PlayerIds : \E ws \in {OwnSocket(pid), NewSocket(pid)} :
          HandleRegister(ws, pid, 25, "75ball", 50)
    \/ \E pid \in PlayerIds :
          /\ pid \in DOMAIN players
          /\ players[pid].roomId = NULL
          /\ HandleJoinRoom(players[pid].socket, pid, "R1")
    \/ \E pid \in PlayerIds : HandleHelloPlayer(NewSocket(pid), pid)
    \/ \E pid \in PlayerIds : CleanupInactivePlayers({pid})
    \/ \E ws \in Sockets : HandleWebSocketClose(ws)

SpecReconnect == Init /\ [][NextReconnect]_vars

\* C22: the close event of a connection that is no longer the player's
\* current socket (the player said hello or registered again on another
\* connection) leaves the player's record, balance and room membership intact.
C22_StaleCloseKeepsPlayer ==
    [][\A pid \in PlayerIds :
          (/\ lastOp'.op = "close"
           /\ lastOp'.pid = pid
           /\ pid \in DOMAIN players
           /\ players[pid].socket # lastOp'.ws)
          => /\ pid \in DOMAIN players'
             /\ players'[pid] = players[pid]
             /\ rooms' = rooms]_vars

(***************************************************************************)
(* Connection manager (src/websocket.ts).  Times of a connection are kept  *)
(* as ages (Date.now() minus the time stamp), in units of 30 seconds, and  *)
(* stop growing one unit past the longest threshold.                       *)
(***************************************************************************)
\* heartbeat: "now - ws.lastPing > 30000"
PingEvery == 1
\* isHealthy: lastPong > Date.now() - 60 * 1000
HealthyWithin == 2
\* isStale: lastMessageTime < Date.now() - 5 * 60 * 1000
StaleAfter == 10

\* isStale
IsStale(meta) ==
    IF meta.lastMessageTime = Never THEN FALSE
    ELSE meta.lastMessageTime > StaleAfter

\* isHealthy
IsHealthy(meta) ==
    IF meta.lastPing = Never \/ meta.lastPong = Never THEN TRUE
    ELSE meta.lastPong < HealthyWithin

\* addToRoom, on roomConnections
AddToRoom(rc, rid, ws) ==
    MapSet(rc, rid, (IF rid \in DOMAIN rc THEN rc[rid] ELSE {}) \cup {ws})

\* removeFromRoom, on roomConnections
RemoveFromRoom(rc, rid, ws) ==
    IF rid \notin DOMAIN rc THEN rc
    ELSE IF rc[rid] \ {ws} = {} THEN MapDelete(rc, rid)
    ELSE [rc EXCEPT ![rid] = @ \ {ws}]

\* addConnection of a connection object whose fields the caller has set
AddConnection(ws, playerId, adminId, roomId) ==
    /\ wsState[ws] = "open"
    /\ ws \notin wm.connections
    /\ wsMeta' = [wsMeta EXCEPT ![ws].playerId = playerId,
                                ![ws].adminId = adminId,
                                ![ws].roomId = roomId]
    /\ wm' = [connections |-> wm.connections \cup {ws},
              playerConnections |->
                 IF playerId # NULL THEN MapSet(wm.playerConnections, playerId, ws)
                 ELSE wm.playerConnections,
              adminConnections |->
                 IF adminId # NULL THEN MapSet(wm.adminConnections, adminId, ws)
                 ELSE wm.adminConnections,
              roomConnections |->
                 IF roomId # NULL THEN AddToRoom(wm.roomConnections, roomId, ws)
                 ELSE wm.roomConnections]
    /\ UNCHANGED <<serverVars, storeVars, castVars, notices>>

\* removeConnection, on the manager's collections
RemoveConnection(w, meta, ws) ==
    [connections |-> w.connections \ {ws},
     playerConnections |->
        IF meta[ws].playerId # NULL THEN MapDelete(w.playerConnections, meta[ws].playerId)
        ELSE w.playerConnections,
     adminConnections |->
        IF meta[ws].adminId # NULL THEN MapDelete(w.adminConnections, meta[ws].adminId)
        ELSE w.adminConnections,
     roomConnections |->
        IF meta[ws].roomId # NULL THEN RemoveFromRoom(w.roomConnections, meta[ws].roomId, ws)
        ELSE w.roomConnections]

\* removeFromRoom: "ws.roomId = undefined" when the room has an entry
RemoveConnectionMeta(w, meta, ws) ==
    IF meta[ws].roomId # NULL /\ meta[ws].roomId \in DOMAIN w.roomConnections
    THEN [meta EXCEPT ![ws].roomId = NULL] ELSE meta

\* the connections cleanupStaleConnections collects
StaleConnections ==
    {ws \in wm.connections : IsStale(wsMeta[ws]) \/ ~IsHealthy(wsMeta[ws])}

RECURSIVE RemoveAll(_, _, _)
RemoveAll(w, meta, stale) ==
    IF stale = {} THEN w
    ELSE LET ws == CHOOSE x \in stale : TRUE
         IN  RemoveAll(RemoveConnection(w, meta, ws), RemoveConnectionMeta(w, meta, ws),
                       stale \ {ws})

RECURSIVE RemoveAllMeta(_, _, _)
RemoveAllMeta(w, meta, stale) ==
    IF stale = {} THEN meta
    ELSE LET ws == CHOOSE x \in stale : TRUE
         IN  RemoveAllMeta(RemoveConnection(w, meta, ws), RemoveConnectionMeta(w, meta, ws),
                           stale \ {ws})

\* cleanupStaleConnections, the callback of the five-minute interval
CleanupStaleConnections ==
    /\ wm' = RemoveAll(wm, wsMeta, StaleConnections)
    /\ wsMeta' = RemoveAllMeta(wm, wsMeta, StaleConnections)
    /\ wsState' = [s \in Sockets |->
          IF s \in StaleConnections /\ wsState[s] = "open" THEN "closing" ELSE wsState[s]]
    /\ lastOp' = Op("cleanup_stale", NULL, NULL, NULL, Cardinality(StaleConnections), "none")
    /\ UNCHANGED <<players, rooms, adminConnections, wsPlayerId, wsIsAdmin>>
    /\ UNCHANGED <<storeVars, castVars, notices>>

\* the connections the heartbeat pings
DuePings ==
    {ws \in wm.connections :
        /\ wsState[ws] = "open"
        /\ (wsMeta[ws].lastPing = Never \/ wsMeta[ws].lastPing > PingEvery)}

\* the heartbeat interval callback: sendJSON of a ping sets lastMessageTime
Heartbeat ==
    /\ wsMeta' = [s \in Sockets |->
          IF s \in DuePings
          THEN [wsMeta[s] EXCEPT !.lastPing = 0, !.lastMessageTime = 0]
          ELSE wsMeta[s]]
    /\ lastOp' = Op("heartbeat", NULL, NULL, NULL, Cardinality(DuePings), "none")
    /\ UNCHANGED <<players, rooms, adminConnections, wsPlayerId, wsIsAdmin, wsState>>
    /\ UNCHANGED <<wm, storeVars, castVars, notices>>

\* handlePong: the client answers a ping
HandlePong(ws) ==
    /\ wsState[ws] = "open"
    /\ ws \in wm.connections
    /\ wsMeta[ws].lastPing # Never
    /\ wsMeta' = [wsMeta EXCEPT ![ws].lastPong = 0]
    /\ lastOp' = Op("pong", ws, NULL, NULL, 0, "none")
    /\ UNCHANGED <<players, rooms, adminConnections, wsPlayerId, wsIsAdmin, wsState>>
    /\ UNCHANGED <<wm, storeVars, castVars, notices>>

\* one more unit on every age
Older(age) == IF age = Never \/ age > StaleAfter THEN age ELSE age + 1

\* 30 seconds pass; the heartbeat callback runs every 10 seconds, so no
\* ping is overdue when a unit ends
Elapse ==
    /\ DuePings = {}
    /\ wsMeta' = [s \in Sockets |->
          [wsMeta[s] EXCEPT !.lastPing = Older(@), !.lastPong = Older(@),
                            !.lastMessageTime = Older(@)]]
    /\ lastOp' = Op("elapse", NULL, NULL, NULL, 0, "none")
    /\ UNCHANGED <<players, rooms, adminConnections, wsPlayerId, wsIsAdmin, wsState>>
    /\ UNCHANGED <<wm, storeVars, castVars, notices>>

(***************************************************************************)
(* SpecLink: a player connection s1 whose client never answers a ping and  *)
(* an admin connection s2 whose client answers when it likes.              *)
(***************************************************************************)
NextLink ==
    \/ \E rid \in {NULL, "R1"} : AddConnection("s1", "p1", NULL, rid)
    \/ AddConnection("s2", NULL, ADMIN_ID, NULL)
    \/ HandlePong("s2")
    \/ Heartbeat
    \/ CleanupStaleConnections
    \/ Elapse

SpecLink == Init /\ [][NextLink]_vars

\* the interval timers fire again and again, and time passes
SpecLinkFair ==
    SpecLink /\ WF_vars(Heartbeat) /\ WF_vars(CleanupStaleConnections) /\ WF_vars(Elapse)

\* C23: a registered connection whose client answers no ping and sends
\* nothing is eventually removed from the connection set by the sweep.
C23_SilentEndpointRemoved ==
    ("s1" \in wm.connections) ~> ("s1" \notin wm.connections)

\* the sweep removes every connection that fails one of the two thresholds
\* from the connection set and from the player, admin and room indexes
C23_SweepRemovesFailing ==
    [][\A ws \in Sockets :
          (/\ lastOp'.op = "cleanup_stale"
           /\ ws \in wm.connections
           /\ (IsStale(wsMeta[ws]) \/ ~IsHealthy(wsMeta[ws])))
          => /\ ws \notin wm'.connections
             /\ \A p \in DOMAIN wm'.playerConnections : wm'.playerConnections[p] # ws
             /\ \A a \in DOMAIN wm'.adminConnections : wm'.adminConnections[a] # ws
             /\ \A r \in DOMAIN wm'.roomConnections : ws \notin wm'.roomConnections[r]]_vars

(***************************************************************************)
(* SpecVariant: two players who register with one of three configurations, *)
(* one admin connection, room R1.                                          *)
(***************************************************************************)
NextVariant ==
    \/ HandleHelloAdmin("s3", TRUE)
    \/ \E pid \in PlayerIds, cfg \in VariantConfigs :
          HandleRegister(OwnSocket(pid), pid, cfg[1], cfg[2], 50)
    \/ \E pid \in PlayerIds : HandleJoinRoom(OwnSocket(pid), pid, "R1")
    \/ \E pid \in PlayerIds :
          HandleLeaveRoom(OwnSocket(pid), pid, "R1") /\ BalancesBounded(MaxBalance)'
    \/ HandleStartGame("s3", "R1", NULL, 0)
    \/ \E pid \in PlayerIds : HandleKickPlayer("s3", pid)

SpecVariant == Init /\ [][NextVariant]_vars

\* the two replies of handleJoinRoom to a configuration mismatch
MismatchReplies == {"error:Room game type mismatch", "error:Room stake mismatch"}

\* C24: a join_room of a player whose game variant or stake differs from the
\* room's is answered with an error and changes neither the rooms nor the
\* players; a join_room to an active room that is not full, by a player with
\* the room's configuration and enough balance, is accepted.
C24_JoinConfigMismatchRejected ==
    [][\A pid \in PlayerIds, rid \in RoomIds :
          (lastOp'.op = "join_room" /\ lastOp'.pid = pid /\ lastOp'.rid = rid)
          => /\ lastOp'.reply \in MismatchReplies =>
                   /\ players' = players
                   /\ rooms' = rooms
             /\ (pid \in DOMAIN players /\ rid \in DOMAIN rooms) =>
                   LET player == players[pid]
                       room == rooms[rid]
                       matches == /\ room.gameType = player.gameType
                                  /\ room.stake = player.stake
                   IN  /\ ~matches =>
                             /\ lastOp'.reply # "room_joined"
                             /\ players' = players
                             /\ rooms' = rooms
                       /\ (/\ matches /\ room.active
                           /\ Cardinality(room.players) < RoomCapacity
                           /\ player.balance >= player.stake)
                          => /\ lastOp'.reply = "room_joined"
                             /\ pid \in rooms'[rid].players]_vars

\* a join was refused for a stake or variant mismatch
C24_Witness ==
    /\ lastOp.op = "join_room"
    /\ lastOp.reply \in MismatchReplies
    /\ lastOp.pid \in DOMAIN players
    /\ players[lastOp.pid].roomId = NULL

\* C25: an accepted join_room takes exactly the player's stake from the
\* player's balance and makes the player a member of the room; a join_room of
\* a player whose balance is below the stake is refused and changes nothing.
C25_JoinChargesStake ==
    [][\A pid \in PlayerIds, rid \in RoomIds :
          (lastOp'.op = "join_room" /\ lastOp'.pid = pid /\ lastOp'.rid = rid)
          => /\ lastOp'.reply = "room_joined" =>
                   /\ pid \in DOMAIN players
                   /\ players[pid].balance >= players[pid].stake
                   /\ players'[pid].balance = players[pid].balance - players[pid].stake
                   /\ players'[pid].roomId = rid
                   /\ pid \in rooms'[rid].players
                   /\ \A q \in DOMAIN players \ {pid} : players'[q] = players[q]
             /\ (pid \in DOMAIN players /\ players[pid].balance < players[pid].stake) =>
                   /\ lastOp'.reply = "error:Insufficient balance to join room"
                   /\ players' = players
                   /\ rooms' = rooms]_vars

\* the scenario: a player with balance 50 and stake 50 has joined
C25_Witness ==
    /\ lastOp.op = "join_room"
    /\ lastOp.reply = "room_joined"
    /\ players[lastOp.pid].stake = 50
    /\ players[lastOp.pid].balance = 0
    /\ rooms[lastOp.rid].players = {lastOp.pid}

(***************************************************************************)
(* Message dispatch: handleWebSocketMessage of the session server          *)
(* (src/auth.ts) and of the earlier server (src/unnamed/part_001), for     *)
(* the payloads that reach no handler.                                     *)
(***************************************************************************)
\* type fields no case of the switch matches
UnknownTypes == {"shout", "dance"}
\* a payload JSON.parse rejects, and one without a type field
MalformedPayloads == {"unparseable", "no_type"}

\* handleWebSocketMessage (src/auth.ts): parse error, missing type, default
HandleWebSocketMessage(ws, payload) ==
    /\ wsState[ws] = "open"
    /\ lastOp' = Op(payload, ws, NULL, NULL, 0,
          IF payload = "unparseable" THEN "error:Invalid message format"
          ELSE IF payload = "no_type" THEN "error:Message type is required"
          ELSE "error:Unknown message type: " \o payload)
    /\ UNCHANGED <<players, rooms, adminConnections, wsPlayerId, wsIsAdmin, wsState>>
    /\ UNCHANGED <<storeVars, castVars, linkVars, notices>>

\* handleWebSocketMessage (src/unnamed/part_001): JSON.parse throws into the
\* listener's catch; a missing type falls into the default case
LegacyHandleWebSocketMessage(ws, payload) ==
    /\ wsState[ws] = "open"
    /\ lastOp' = Op(payload, ws, NULL, NULL, 1,
          IF payload = "unparseable" THEN "error:Internal server error"
          ELSE "error:Unknown message type")
    /\ UNCHANGED <<players, rooms, adminConnections, wsPlayerId, wsIsAdmin, wsState>>
    /\ UNCHANGED <<storeVars, castVars, linkVars, notices>>

(***************************************************************************)
(* SpecDispatch: two players and an admin connection; any connection may   *)
(* send a payload that reaches no handler, to either server.               *)
(***************************************************************************)
NextDispatch ==
    \/ HandleHelloAdmin("s3", TRUE)
    \/ \E pid \in PlayerIds :
          HandleRegister(OwnSocket(pid), pid, 25, "75ball", 50)
    \/ \E pid \in PlayerIds :
          /\ pid \in DOMAIN players => players[pid].roomId = NULL
          /\ HandleJoinRoom(OwnSocket(pid), pid, "R1")
    \/ \E ws \in {"s1", "s3"}, payload \in UnknownTypes \cup MalformedPayloads :
          HandleWebSocketMessage(ws, payload)
    \/ \E ws \in {"s1", "s3"}, payload \in UnknownTypes \cup MalformedPayloads :
          LegacyHandleWebSocketMessage(ws, payload)

SpecDispatch == Init /\ [][NextDispatch]_vars

\* the reply is an error that names the type
NamesType(reply, type) == reply = "error:Unknown message type: " \o type

\* C26: a message of an unknown type is answered with an error that names
\* the type, a malformed payload with an error; players, rooms and admin
\* connections stay as they are.
C26_UnknownTypeNamed ==
    [][lastOp'.op \in UnknownTypes \cup MalformedPayloads
       => /\ players' = players
          /\ rooms' = rooms
          /\ adminConnections' = adminConnections
          /\ lastOp'.op \in UnknownTypes => NamesType(lastOp'.reply, lastOp'.op)
          /\ lastOp'.op \in MalformedPayloads =>
                lastOp'.reply \in {"error:Invalid message format",
                                   "error:Message type is required",
                                   "error:Internal server error",
                                   "error:Unknown message type"}]_vars

\* the session server of src/auth.ts (lastOp.arg = 0) meets C26
C26_ServerHalf ==
    [][(lastOp'.op \in UnknownTypes \cup MalformedPayloads /\ lastOp'.arg = 0)
       => /\ players' = players
          /\ rooms' = rooms
          /\ adminConnections' = adminConnections
          /\ lastOp'.op \in UnknownTypes => NamesType(lastOp'.reply, lastOp'.op)
          /\ lastOp'.op \in MalformedPayloads =>
                lastOp'.reply \in {"error:Invalid message format",
                                   "error:Message type is required"}]_vars

(***************************************************************************)
(* Admin commands.                                                         *)
(***************************************************************************)
\* what broadcastToRoom(rid) delivers when no send throws
Delivered(rid) ==
    [rid |-> rid, threw |-> {},
     count |-> [w \in Sockets |-> IF rid \notin DOMAIN rooms THEN 0 ELSE SendCalls(rid, w)]]

\* handleAdminCommand, command "broadcast" (handleAdminBroadcast); rid = NULL
\* is a command without roomId, which goes to every room
HandleAdminBroadcast(ws, text, rid) ==
    /\ wsState[ws] = "open"
    /\ IF ~wsIsAdmin[ws]
       THEN /\ lastOp' = Op("broadcast_command", ws, NULL, rid, 0, "error:Admin only action")
            /\ UNCHANGED sends
       ELSE IF text = ""
       THEN /\ lastOp' = Op("broadcast_command", ws, NULL, rid, 0, "error:Invalid broadcast message")
            /\ UNCHANGED sends
       ELSE /\ lastOp' = Op("broadcast_command", ws, NULL, rid, 0, "admin_command_result")
            /\ IF rid # NULL THEN sends' = Delivered(rid)
               ELSE IF rooms = <<>> THEN UNCHANGED sends
               ELSE \E last \in DOMAIN rooms : sends' = Delivered(last)
    /\ UNCHANGED <<players, rooms, adminConnections, wsPlayerId, wsIsAdmin, wsState>>
    /\ UNCHANGED <<storeVars, now, bTimers, bSent, bNext, bThrown, linkVars, notices>>

(***************************************************************************)
(* SpecAuthz: a player connection s1 and an admin connection s3 both send  *)
(* the admin-only messages for room R1.                                    *)
(***************************************************************************)
NextAuthz ==
    \/ HandleHelloAdmin("s3", TRUE)
    \/ \E pid \in PlayerIds :
          HandleRegister(OwnSocket(pid), pid, 25, "75ball", 50)
    \/ \E pid \in PlayerIds :
          /\ pid \in DOMAIN players => players[pid].roomId = NULL
          /\ HandleJoinRoom(OwnSocket(pid), pid, "R1")
    \/ \E ws \in {"s1", "s3"} : HandleStartGame(ws, "R1", NULL, 0)
    \/ \E ws \in {"s1", "s3"}, n \in CallInputs : HandleNumberCalled(ws, "R1", n)
    \/ \E ws \in {"s1", "s3"}, text \in {"", "hi"}, rid \in {NULL, "R1"} :
          HandleAdminBroadcast(ws, text, rid)
    \/ \E ws \in {"s1", "s3"}, pid \in PlayerIds : HandleKickPlayer(ws, pid)
    \/ \E ws \in {"s1", "s3"} : HandleEndGame(ws, "R1")
    \/ \E ws \in {"s1", "s3"} : HandleResetRoom(ws, "R1")

SpecAuthz == Init /\ [][NextAuthz]_vars

\* the admin-only messages
AdminOnlyOps ==
    {"start_game", "number_called", "broadcast_command", "kick_player", "end_game",
     "reset_room"}

\* C27: an admin-only message from a connection that is not an admin is
\* answered with an error and changes no room and no player.
C27_NonAdminRejected ==
    [][(lastOp'.op \in AdminOnlyOps /\ ~wsIsAdmin[lastOp'.ws])
       => /\ lastOp'.reply \in {"error:Admin only action", "error:Room not found",
                                "error:Game not active"}
          /\ players' = players
          /\ rooms' = rooms
          /\ wsState' = wsState]_vars

\* a player connection tried to call a number in a running game
C27_Witness ==
    /\ lastOp.op = "number_called"
    /\ lastOp.arg = 17
    /\ ~wsIsAdmin[lastOp.ws]
    /\ lastOp.reply = "error:Admin only action"
    /\ "R1" \in DOMAIN rooms
    /\ rooms["R1"].active

(***************************************************************************)
(* SpecPayout: payout distribution of RoomModel.  Two players with stakes  *)
(* 25 or 50, one room, up to MaxPayoutWinners winner records per session;  *)
(* a winner record is appended with amount 0 or with an amount of 30.      *)
(***************************************************************************)
PayoutStakes == {25, 50}
PayoutWinAmounts == {0, 30}

PayoutBounded ==
    /\ \A p \in DOMAIN mPlayers : mPlayers[p].wonAmount <= MaxPayoutWon
    /\ \A r \in DOMAIN mRooms : Len(mRooms[r].winners) <= MaxPayoutWinners

NextPayout ==
    \/ \E pid \in PlayerIds \ DOMAIN mPlayers, st \in PayoutStakes :
          PlayerCreate(pid, st, "75ball", 50)
    \/ mRoomSeq = 1 /\ RoomCreate("75ball", 25)
    \/ \E pid \in PlayerIds : RoomAddPlayer("R1", pid)
    \/ RoomStartGame("R1")
    \/ \E pid \in PlayerIds, amt \in PayoutWinAmounts :
          RoomAddWinner("R1", pid, "line", amt) /\ PayoutBounded'
    \/ RoomEndGame("R1") /\ PayoutBounded'

SpecPayout == Init /\ [][NextPayout]_vars

\* floor(prizePool * stake / totalWinnerStake), the prize pool being the
\* total stake less 3 per cent, in hundredths
FlooredShare(totalStake, stake, totalWinnerStake) ==
    ((100 * totalStake - 3 * totalStake) * stake) \div (100 * totalWinnerStake)

\* the sum of the shares of the winner records of player p
RECURSIVE ExpectedCredit(_, _, _, _, _)
ExpectedCredit(pl, p, winners, totalStake, totalWinnerStake) ==
    IF winners = <<>> THEN 0
    ELSE (IF Head(winners).playerId = p
          THEN FlooredShare(totalStake, pl[p].stake, totalWinnerStake) ELSE 0)
         + ExpectedCredit(pl, p, Tail(winners), totalStake, totalWinnerStake)

\* C28: an endGame that distributes the payout of a room with at least one
\* winner record sets the amount of every record of a known player to
\* floor(prizePool * winnerStake / sum of the recorded winners' stakes) and
\* credits that amount to the player's balance once per record, the prize
\* pool being the total stake of the room's current members less 3 per cent;
\* with no winner record no balance and no winner amount changes.
C28_PayoutProportionalShare ==
    [][\A rid \in RoomIds :
          (/\ mLast'.op = "endGame" /\ mLast'.rid = rid /\ mLast'.ok
           /\ rid \in DOMAIN mRooms)
          => LET room == mRooms[rid]
                 total == SumStakes(mPlayers, room.players)
                 tws == SumWinnerStakes(mPlayers, room.winners)
             IN  IF room.winners = <<>>
                 THEN /\ mPlayers' = mPlayers
                      /\ mRooms'[rid].winners = room.winners
                 ELSE /\ Len(mRooms'[rid].winners) = Len(room.winners)
                      /\ \A i \in 1..Len(room.winners) :
                            room.winners[i].playerId \in DOMAIN mPlayers =>
                               mRooms'[rid].winners[i].amount =
                                  FlooredShare(total,
                                      mPlayers[room.winners[i].playerId].stake, tws)
                      /\ \A p \in DOMAIN mPlayers :
                            mPlayers'[p].balance = mPlayers[p].balance +
                               ExpectedCredit(mPlayers, p, room.winners, total, tws)]_vars

\* a payout to two winners with different stakes: 24 and 48 of a pool of 72.75
C28_Witness ==
    /\ mLast.op = "endGame" /\ mLast.ok
    /\ "R1" \in DOMAIN mRooms
    /\ Len(mRooms["R1"].winners) = 2
    /\ {mRooms["R1"].winners[i].amount : i \in 1..2} = {24, 48}

\* C29: a winner record keeps its playerId and pattern, and its amount never
\* decreases, for as long as the record is in the room's winner list.
C29_WinnerRecordMonotone ==
    [][\A rid \in DOMAIN mRooms :
          rid \in DOMAIN mRooms' =>
             \A i \in 1..Len(mRooms[rid].winners) :
                i <= Len(mRooms'[rid].winners) =>
                   /\ mRooms'[rid].winners[i].playerId = mRooms[rid].winners[i].playerId
                   /\ mRooms'[rid].winners[i].pattern = mRooms[rid].winners[i].pattern
                   /\ mRooms'[rid].winners[i].amount >= mRooms[rid].winners[i].amount]_vars

\* C30: in every reachable state the balance of every player equals
\* payment + wonAmount - withdrawn.
C30_BalanceIsDerived ==
    \A p \in DOMAIN players :
        players[p].balance =
            players[p].payment + players[p].wonAmount - players[p].withdrawn

\* the store class PlayerModel keeps the identity of C30
C30_StoreHalf ==
    \A p \in DOMAIN mPlayers :
        mPlayers[p].balance =
            mPlayers[p].payment + mPlayers[p].wonAmount - mPlayers[p].withdrawn

(***************************************************************************)
(* Store classes: removal of players (src/unnamed/part_002).               *)
(***************************************************************************)

\* PlayerModel.remove, as a function of the player map: the record is deleted,
\* no room's membership set is touched
RemovePlayer(pl, pid) == IF pid \in DOMAIN pl THEN MapDelete(pl, pid) ELSE pl

\* PlayerModel.remove
PlayerRemove(pid) ==
    /\ mPlayers' = RemovePlayer(mPlayers, pid)
    /\ mLast' = StoreOp("PlayerModel.remove", NULL, pid, pid \in DOMAIN mPlayers)
    /\ UNCHANGED <<mRooms, mRoomSeq, mPayouts>>
    /\ UNCHANGED <<serverVars, castVars, linkVars, notices>>

\* PlayerModel.cleanupInactive: this.remove for every player whose lastActive
\* is older than the cutoff (the set stale)
PlayerCleanupInactive(stale) ==
    /\ mPlayers' = [p \in DOMAIN mPlayers \ stale |-> mPlayers[p]]
    /\ mLast' = StoreOp("PlayerModel.cleanupInactive", NULL, NULL, stale # {})
    /\ UNCHANGED <<mRooms, mRoomSeq, mPayouts>>
    /\ UNCHANGED <<serverVars, castVars, linkVars, notices>>

\* the rooms whose membership set holds pid
StoreRoomsOf(pid) == {r \in DOMAIN mRooms : pid \in mRooms[r].players}

(***************************************************************************)
(* SpecRoster: players and room membership of the store classes.  Callers  *)
(* add existing players only and call remove only for a player they have   *)
(* detached from every room.                                               *)
(***************************************************************************)
NextRoster ==
    \/ \E pid \in PlayerIds \ DOMAIN mPlayers, st \in StoreStakes :
          PlayerCreate(pid, st, "75ball", 50)
    \/ mRoomSeq <= 2 /\ RoomCreate("75ball", 25)
    \/ \E pid \in DOMAIN mPlayers, rid \in RoomIds :
          mPlayers[pid].roomId = NULL /\ RoomAddPlayer(rid, pid)
    \/ \E pid \in DOMAIN mPlayers, rid \in DOMAIN mRooms :
          pid \in mRooms[rid].players /\ PlayerJoinRoom(pid, rid)
    \/ \E pid \in PlayerIds, rid \in RoomIds : RoomRemovePlayer(rid, pid)
    \/ \E pid \in PlayerIds : PlayerLeaveRoom(pid)
    \/ \E pid \in PlayerIds : StoreRoomsOf(pid) = {} /\ PlayerRemove(pid)
    \/ \E stale \in SUBSET DOMAIN mPlayers : PlayerCleanupInactive(stale)

SpecRoster == Init /\ [][NextRoster]_vars

\* C31: every id in a room's membership set names a player present in the
\* player store (store classes).
C31_MembersExist ==
    \A r \in DOMAIN mRooms : mRooms[r].players \subseteq DOMAIN mPlayers

\* C31, session server: every id in a room's membership set names a player
\* present in the players map.
C31_ServerMembersExist ==
    \A r \in DOMAIN rooms : rooms[r].players \subseteq DOMAIN players

(***************************************************************************)
(* Properties of the deferred flush of the broadcast service.              *)
(***************************************************************************)

\* C32: at most one deferred flush is pending per room (a timer is pending
\* only while the room's marker is set, and a new one is scheduled only when
\* none is pending); when the flush fires on a non-empty queue it makes one
\* broadcast holding everything queued, in order, as the message itself for
\* one message and as one batch envelope for two or more, and leaves the
\* queue empty and no flush pending.
C32_SingleFlushSendsAll ==
    /\ [](\A r \in DOMAIN mRooms : bTimers[r] # NoTimer => mRooms[r].broadcastTimeout)
    /\ [][\A r \in RoomIds :
            /\ (bTimers'[r] # NoTimer /\ bTimers'[r] # bTimers[r]) => bTimers[r] = NoTimer
            /\ (/\ ProcessQueuedMessages(r)
                /\ r \in DOMAIN mRooms
                /\ mRooms[r].queuedMessages # <<>>)
               => LET q == mRooms[r].queuedMessages
                      n == Len(bSent'[r])
                  IN  /\ n = Len(bSent[r]) + 1
                      /\ SubSeq(bSent'[r], 1, n - 1) = bSent[r]
                      /\ bSent'[r][n].msgs = [i \in 1..Len(q) |-> q[i].message]
                      /\ bSent'[r][n].envelope = (IF Len(q) = 1 THEN "message" ELSE "batch")
                      /\ bSent'[r][n].deferred
                      /\ mRooms'[r].queuedMessages = <<>>
                      /\ ~mRooms'[r].broadcastTimeout
                      /\ bTimers'[r] = NoTimer]_vars

\* a flush has sent one message as itself and another flush a batch of two or
\* more; the queue is empty and no flush is pending
C32_Witness ==
    /\ "R1" \in DOMAIN mRooms
    /\ \E i, j \in 1..Len(bSent["R1"]) :
          /\ bSent["R1"][i].deferred /\ bSent["R1"][j].deferred
          /\ bSent["R1"][i].envelope = "batch" /\ Len(bSent["R1"][i].msgs) >= 2
          /\ bSent["R1"][j].envelope = "message" /\ Len(bSent["R1"][j].msgs) = 1
    /\ mRooms["R1"].queuedMessages = <<>>
    /\ bTimers["R1"] = NoTimer

(***************************************************************************)
(* SpecOrder: one admin connection s3, two players in room R1, two valid   *)
(* numbers to call; every player marks the numbers of a line in ascending  *)
(* order and may claim it.                                                 *)
(***************************************************************************)
OrderCalls == {17, 23}

NextOrder ==
    \/ HandleHelloAdmin("s3", TRUE)
    \/ \E pid \in PlayerIds :
            /\ pid \notin DOMAIN players
            /\ HandleRegister(OwnSocket(pid), pid, 25, "75ball", 50)
    \/ \E pid \in PlayerIds :
            /\ pid \in DOMAIN players => players[pid].roomId = NULL
            /\ HandleJoinRoom(OwnSocket(pid), pid, "R1")
    \/ HandleStartGame("s3", "R1", NULL, 0)
    \/ \E n \in OrderCalls : HandleNumberCalled("s3", "R1", n)
    \/ \E pid \in PlayerIds : \E n \in NextToMark(pid) :
            HandleMark(OwnSocket(pid), pid, n, TRUE)
    \/ \E pid \in PlayerIds :
            /\ HandleWin(OwnSocket(pid), pid, "line", 0)
            /\ BalancesBounded(MaxGameBalance)' /\ WinnersBounded'
    \/ HandleEndGame("s3", "R1")
    \/ HandleResetRoom("s3", "R1")

SpecOrder == Init /\ [][NextOrder]_vars

\* seq2 is seq1 with exactly one item appended
AppendedOne(seq1, seq2) ==
    /\ Len(seq2) = Len(seq1) + 1
    /\ SubSeq(seq2, 1, Len(seq1)) = seq1

\* C33: while a room is Active, a step that changes calledNumbers is an
\* accepted number_called appending its number at the end, a step that changes
\* winners is an accepted win appending its record at the end, and nothing
\* else changes either list; the items already there keep their positions.
\* Only start_game and reset_room empty the lists.
C33_ListsAppendOnly ==
    [][\A r \in DOMAIN rooms \cap DOMAIN rooms' :
          /\ (rooms[r].active /\ rooms'[r].calledNumbers # rooms[r].calledNumbers)
             => \/ /\ lastOp'.op = "number_called" /\ lastOp'.reply = "number_called"
                   /\ rooms'[r].calledNumbers = Append(rooms[r].calledNumbers, lastOp'.arg)
                \/ /\ lastOp'.op = "reset_room"
                   /\ rooms'[r].calledNumbers = <<>>
          /\ (rooms[r].active /\ rooms'[r].winners # rooms[r].winners)
             => \/ /\ lastOp'.op = "win" /\ lastOp'.reply = "win_confirmed"
                   /\ AppendedOne(rooms[r].winners, rooms'[r].winners)
                   /\ rooms'[r].winners[Len(rooms'[r].winners)].playerId = lastOp'.pid
                \/ /\ lastOp'.op = "reset_room"
                   /\ rooms'[r].winners = <<>>
          /\ (~rooms[r].active /\ rooms'[r].active)
             => rooms'[r].calledNumbers = <<>> /\ rooms'[r].winners = <<>>
          /\ (Len(rooms'[r].calledNumbers) < Len(rooms[r].calledNumbers)
                \/ Len(rooms'[r].winners) < Len(rooms[r].winners))
             => lastOp'.op \in {"start_game", "reset_room"}]_vars

\* an Active room holds two called numbers and two winner records, the second
\* of each appended by the last two accepted operations
C33_Witness ==
    /\ "R1" \in DOMAIN rooms
    /\ rooms["R1"].active
    /\ rooms["R1"].calledNumbers = <<23, 17>>
    /\ Len(rooms["R1"].winners) = 2
    /\ rooms["R1"].winners[1].playerId = "p2"
    /\ rooms["R1"].winners[2].playerId = "p1"
    /\ lastOp.op = "win" /\ lastOp.reply = "win_confirmed" /\ lastOp.pid = "p1"

\* C34: a leave_room naming an existing room of which the player is not a
\* member changes nothing: no refund, the player's roomId is kept, and the
\* named room's membership and existence are unchanged.
C34_NonMemberLeaveChangesNothing ==
    [][\A pid \in PlayerIds, rid \in RoomIds :
          (/\ lastOp'.op = "leave_room" /\ lastOp'.pid = pid /\ lastOp'.rid = rid
           /\ pid \in DOMAIN players /\ rid \in DOMAIN rooms
           /\ pid \notin rooms[rid].players)
          => /\ players' = players
             /\ rooms' = rooms]_vars

\* C35: the stake is charged once per membership: a join_room for a room the
\* player already belongs to leaves the player's balance as it is (so that
\* one leave of the Waiting room restores the balance before the first join).
C35_RejoinNotCharged ==
    [][\A pid \in PlayerIds, rid \in RoomIds :
          (/\ lastOp'.op = "join_room" /\ lastOp'.pid = pid /\ lastOp'.rid = rid
           /\ pid \in DOMAIN players /\ rid \in DOMAIN rooms
           /\ pid \in rooms[rid].players)
          => players'[pid].balance = players[pid].balance]_vars

(***************************************************************************)
(* SpecStartConfig: players register once with one configuration and join  *)
(* room R1; the admin connection s3 starts and ends games, and its         *)
(* start_game message may carry gameType and stake.                        *)
(***************************************************************************)
StartGameTypes == {NULL, "90ball"}
StartStakes == {0, 50}

NextStartConfig ==
    \/ HandleHelloAdmin("s3", TRUE)
    \/ \E pid \in PlayerIds :
          /\ pid \notin DOMAIN players
          /\ HandleRegister(OwnSocket(pid), pid, 25, "75ball", 50)
    \/ \E pid \in PlayerIds :
          /\ pid \in DOMAIN players => players[pid].roomId = NULL
          /\ HandleJoinRoom(OwnSocket(pid), pid, "R1")
    \/ \E pid \in PlayerIds :
          HandleLeaveRoom(OwnSocket(pid), pid, "R1") /\ BalancesBounded(MaxBalance)'
    \/ \E gt \in StartGameTypes, st \in StartStakes : HandleStartGame("s3", "R1", gt, st)
    \/ HandleEndGame("s3", "R1")

SpecStartConfig == Init /\ [][NextStartConfig]_vars

\* C36: every member of a room has the room's game variant and the room's
\* stake.
C36_MembersMatchRoomConfig ==
    \A r \in DOMAIN rooms : \A p \in rooms[r].players :
        p \in DOMAIN players =>
            /\ players[p].gameType = rooms[r].gameType
            /\ players[p].stake = rooms[r].stake

(***************************************************************************)
(* SpecForeign: players p1 and p2 register on their own connections s1 and *)
(* s2 and join room R1; afterwards the connection s2 sends leave_room,     *)
(* withdraw, mark and win messages that carry the id of p1.                *)
(***************************************************************************)
NextForeign ==
    \/ HandleHelloAdmin("s3", TRUE)
    \/ \E pid \in PlayerIds :
          /\ pid \notin DOMAIN players
          /\ HandleRegister(OwnSocket(pid), pid, 25, "75ball", 50)
    \/ \E pid \in PlayerIds :
          /\ pid \in DOMAIN players /\ players[pid].roomId = NULL
          /\ HandleJoinRoom(OwnSocket(pid), pid, "R1")
    \/ HandleStartGame("s3", "R1", NULL, 0)
    \/ HandleLeaveRoom("s2", "p1", "R1") /\ BalancesBounded(MaxBalance)'
    \/ HandleWithdraw("s2", "p1", 25, "1000123456")
    \/ \E n \in NextToMark("p1") : HandleMark("s2", "p1", n, TRUE)
    \/ /\ HandleWin("s2", "p1", "line", 0)
       /\ BalancesBounded(MaxGameBalance)' /\ WinnersBounded'

SpecForeign == Init /\ [][NextForeign]_vars

\* the rooms of the session server whose membership set holds pid
RoomsOf(rm, pid) == {r \in DOMAIN rm : pid \in rm[r].players}

\* C37: a message changes the balance, the marks or the room membership of a
\* player only if it arrives on the connection bound to that player or on an
\* admin connection.
C37_OnlyOwnEndpointActs ==
    [][\A pid \in DOMAIN players \cap DOMAIN players' :
          (\/ players'[pid].balance # players[pid].balance
           \/ players'[pid].markedNumbers # players[pid].markedNumbers
           \/ players'[pid].roomId # players[pid].roomId
           \/ RoomsOf(rooms', pid) # RoomsOf(rooms, pid))
          => \/ wsPlayerId[lastOp'.ws] = pid
             \/ wsIsAdmin[lastOp'.ws]]_vars

\* C38: when a room becomes Active, every member's marked-number set is
\* empty.
C38_MarksEmptyAtStart ==
    [][\A r \in DOMAIN rooms \cap DOMAIN rooms' :
          (~rooms[r].active /\ rooms'[r].active)
          => \A p \in rooms'[r].players :
                p \in DOMAIN players' => players'[p].markedNumbers = {}]_vars

(***************************************************************************)
(* SpecIndex: the client of player p1 connects on s1 and again on s3 and    *)
(* answers pings on s1 when it likes; connections are removed by           *)
(* removeConnection and by the sweep of stale connections.                 *)
(***************************************************************************)
\* removeConnection, called for a connection object
RemoveConnectionOf(ws) ==
    /\ wm' = RemoveConnection(wm, wsMeta, ws)
    /\ wsMeta' = RemoveConnectionMeta(wm, wsMeta, ws)
    /\ lastOp' = Op("remove_connection", ws, NULL, NULL, 0, "none")
    /\ UNCHANGED <<players, rooms, adminConnections, wsPlayerId, wsIsAdmin, wsState>>
    /\ UNCHANGED <<storeVars, castVars, notices>>

NextIndex ==
    \/ \E ws \in {"s1", "s3"} : AddConnection(ws, "p1", NULL, NULL)
    \/ \E ws \in {"s1", "s3"} : RemoveConnectionOf(ws)
    \/ HandlePong("s1")
    \/ Heartbeat
    \/ CleanupStaleConnections
    \/ Elapse

SpecIndex == Init /\ [][NextIndex]_vars

\* C39: a step that removes endpoints leaves the index entry of every player
\* whose indexed endpoint stays connected (the endpoint added last for that
\* id) as it is.
C39_RemovalKeepsNewerEntry ==
    [][\A pid \in DOMAIN wm.playerConnections :
          LET ws == wm.playerConnections[pid]
          IN  (ws \in wm.connections /\ ws \in wm'.connections)
              => /\ pid \in DOMAIN wm'.playerConnections
                 /\ wm'.playerConnections[pid] \in wm'.connections
                 /\ \/ wm'.playerConnections[pid] = ws
                    \/ wm'.playerConnections[pid] \notin wm.connections]_vars

\* C39, second part: every endpoint in playerConnections is in the connection
\* set.
C39_IndexWithinConnections ==
    \A pid \in DOMAIN wm.playerConnections : wm.playerConnections[pid] \in wm.connections

(***************************************************************************)
(* SpecFlush: one room with one member; broadcasts are submitted while the *)
(* member is in the room, the member leaves and RoomModel.removePlayer     *)
(* removes the empty room while a deferred flush may be pending.           *)
(***************************************************************************)
NextFlush ==
    \/ "p1" \notin DOMAIN mPlayers /\ PlayerCreate("p1", 25, "75ball", 50)
    \/ mRoomSeq = 1 /\ RoomCreate("75ball", 25)
    \/ "p1" \in DOMAIN mPlayers /\ RoomAddPlayer("R1", "p1")
    \/ RoomRemovePlayer("R1", "p1")
    \/ /\ bNext <= MaxMsgs
       /\ now + MinInterval <= MaxTime
       /\ RateLimitedBroadcast("R1")
    \/ ProcessQueuedMessages("R1")
    \/ CleanupBroadcastTimeouts
    \/ Tick

SpecFlush == Init /\ [][NextFlush]_vars

\* C40: a deferred flush that fires after its room has been destroyed raises
\* no error (no timer callback ever throws).
C40_FlushNeverThrows == bThrown = {}

\* C40, second part: a flush that finds the room with an empty queue clears
\* the pending-flush marker and sends nothing.
C40_EmptyQueueFlush ==
    [][\A r \in RoomIds :
          (/\ ProcessQueuedMessages(r)
           /\ r \in DOMAIN mRooms
           /\ mRooms[r].queuedMessages = <<>>)
          => /\ bSent' = bSent
             /\ ~mRooms'[r].broadcastTimeout
             /\ bThrown' = bThrown]_vars

====
